---- MODULE Spec2Model ----
(***************************************************************************)
(* Model of the object storage POC: the local filesystem provider          *)
(* (src/src/providers/local.js) on top of a small model of the file        *)
(* system calls it makes through fs-extra.                                 *)
(*                                                                         *)
(* Strings (keys, prefixes, string payloads) are sequences of characters.  *)
(* The characters are "a", "b", " ", "_", ".", "/" and the two atoms       *)
(* ".metadata" and ".json", which stand for those literal character runs   *)
(* (no other character of the alphabet can spell them, so every string has *)
(* one representation).  A path is a sequence of segments from the file    *)
(* system root, a segment is a non-empty string without "/".               *)
(***************************************************************************)
EXTENDS Naturals, Sequences, FiniteSets, TLC

VARIABLES
    fs,       \* the file system: path -> node, for the paths that exist
    ret,      \* what the last completed call returned or threw
    lastUp,   \* per key: the last successful upload of it whose files are untouched since
    written,  \* the keys that an upload or a copy was asked to write and no delete removed since
    now,      \* the clock (new Date())
    nops,     \* number of mutating calls started so far
    tasks,    \* in-flight upload and delete calls of the step-wise specifications
    pager,    \* a caller that reads a listing page by page
    cloud,    \* the buckets of the cloud backends and what the last adapter call did
    fac,      \* what the last call of the provider factory did
    runner    \* the test runner: its position, its results, the calls it made

vars == <<fs, ret, lastUp, written, now, nops, tasks, pager, cloud, fac, runner>>

\* the variables of the local provider, and the others
storeVars == <<fs, ret, lastUp, written, now, nops, tasks>>

-----------------------------------------------------------------------------
(* Bounds of the model *)

\* mutating calls (upload, copy, delete) per behaviour
MaxOps == 2
\* largest clock value
MaxTime == 1
\* concurrent calls in the step-wise specifications
MaxTasks == 2
\* the page count of a paging caller saturates here
MaxPages == 2

-----------------------------------------------------------------------------
(* Strings *)

\* the characters that local.js:265 keeps: [a-zA-Z0-9._/-]
SafeChars == {"a", "b", "_", ".", "/", ".metadata", ".json"}

IsPrefixOf(p, s) == Len(p) <= Len(s) /\ SubSeq(s, 1, Len(p)) = p

\* a variant of startsWith that compares the first character only
startsWithFirst(s, p) == s # <<>> /\ p # <<>> /\ s[1] = p[1]

\* String.prototype.startsWith
startsWith(s, p) == IsPrefixOf(p, s)

\* key.replace(/[^a-zA-Z0-9._\/-]/g, '_')
sanitize(key) == [i \in DOMAIN key |-> IF key[i] \in SafeChars THEN key[i] ELSE "_"]

\* the segments between the "/" of a string (empty segments included)
RECURSIVE SplitFrom(_, _, _)
SplitFrom(s, i, cur) ==
    IF i > Len(s) THEN <<cur>>
    ELSE IF s[i] = "/" THEN <<cur>> \o SplitFrom(s, i + 1, <<>>)
    ELSE SplitFrom(s, i + 1, Append(cur, s[i]))

Split(s) == SplitFrom(s, 1, <<>>)

\* path.normalize on the segments appended to an absolute path: "" and "."
\* are dropped, ".." removes the segment before it (the root has no parent)
RECURSIVE NormalizeOnto(_, _, _)
NormalizeOnto(acc, segs, i) ==
    IF i > Len(segs) THEN acc
    ELSE IF segs[i] = <<>> \/ segs[i] = <<".">> THEN NormalizeOnto(acc, segs, i + 1)
    ELSE IF segs[i] = <<".", ".">>
         THEN NormalizeOnto(IF acc = <<>> THEN acc ELSE SubSeq(acc, 1, Len(acc) - 1), segs, i + 1)
    ELSE NormalizeOnto(Append(acc, segs[i]), segs, i + 1)

\* path.join(dir, s) for an absolute, normalized dir
pathJoin(dir, s) == NormalizeOnto(dir, Split(s), 1)

\* path.dirname of an absolute normalized path
dirname(p) == IF p = <<>> THEN p ELSE SubSeq(p, 1, Len(p) - 1)

-----------------------------------------------------------------------------
(* The provider's paths *)

\* config.basePath
basePath == << <<"store">> >>

\* path.join(this.basePath, '.metadata')
metadataPath == pathJoin(basePath, <<".metadata">>)

_getFilePath(key) == pathJoin(basePath, sanitize(key))

_getMetadataPath(key) == pathJoin(metadataPath, sanitize(key) \o <<".json">>)

-----------------------------------------------------------------------------
(* File contents *)

\* raw bytes, each byte written as its two hexadecimal digits
Raw(b) == [kind |-> "raw", bytes |-> b]

\* JSON.stringify(record, null, 2): the text of a record
JSONstringify(r) == [kind |-> "json", rec |-> r]

\* JSON.parse: only the text of a record parses
JSONparse(c) == IF c.kind = "json" THEN [ok |-> TRUE, rec |-> c.rec]
                ELSE [ok |-> FALSE, rec |-> <<>>]

\* the md5 digest of a content, one digest per content
md5(c) == <<"md5", c>>

\* the number of bytes of a content; a JSON text is counted coarsely: the
\* key it holds and the rest of the text, taken as of one length
byteLength(c) == IF c.kind = "raw" THEN Len(c.bytes) ELSE Len(c.rec.key) + 150

\* the UTF-8 bytes of one character of the alphabet
utf8(ch) ==
    CASE ch = "a" -> <<"61">>
      [] ch = "b" -> <<"62">>
      [] ch = " " -> <<"20">>
      [] ch = "_" -> <<"5f">>
      [] ch = "." -> <<"2e">>
      [] ch = "/" -> <<"2f">>
      [] ch = ".json" -> <<"2e", "6a", "73", "6f", "6e">>
      [] ch = ".metadata" -> <<"2e", "6d", "65", "74", "61", "64", "61", "74", "61">>

\* Buffer.from(string): the UTF-8 encoding of the string
RECURSIVE BufferFrom(_)
BufferFrom(s) == IF s = <<>> THEN <<>> ELSE utf8(Head(s)) \o BufferFrom(Tail(s))

-----------------------------------------------------------------------------
(* The file system calls of fs-extra that the provider uses.  A file system *)
(* is a function from the existing paths to their nodes; a call returns     *)
(* [err, fs]: err is "" on success and the errno code otherwise.            *)

DirNode == [dir |-> TRUE, data |-> Raw(<<>>)]
FileNode(c) == [dir |-> FALSE, data |-> c]
NoNode == [dir |-> FALSE, data |-> [kind |-> "none"]]

Prefixes(p) == {SubSeq(p, 1, i) : i \in 0..Len(p)}
ProperPrefixes(p) == {SubSeq(p, 1, i) : i \in 0..(Len(p) - 1)}

IsDir(f, p) == p \in DOMAIN f /\ f[p].dir
IsFile(f, p) == p \in DOMAIN f /\ ~f[p].dir

\* a component of the path before the last is a regular file (ENOTDIR)
AncestorIsFile(f, p) == \E q \in ProperPrefixes(p) : IsFile(f, q)

\* fs.pathExists: fs.access succeeded
pathExists(f, p) == p \in DOMAIN f

\* fs.ensureDir: mkdir -p
ensureDir(f, p) ==
    IF IsFile(f, p) THEN [err |-> "EEXIST", fs |-> f]
    ELSE IF AncestorIsFile(f, p) THEN [err |-> "ENOTDIR", fs |-> f]
    ELSE [err |-> "",
          fs |-> [q \in DOMAIN f \cup Prefixes(p) |->
                    IF q \in DOMAIN f THEN f[q] ELSE DirNode]]

\* fs.writeFile: creates or replaces a regular file in an existing directory
writeFile(f, p, c) ==
    IF p = <<>> \/ IsDir(f, p) THEN [err |-> "EISDIR", fs |-> f]
    ELSE IF AncestorIsFile(f, p) THEN [err |-> "ENOTDIR", fs |-> f]
    ELSE IF ~IsDir(f, dirname(p)) THEN [err |-> "ENOENT", fs |-> f]
    ELSE [err |-> "",
          fs |-> [q \in DOMAIN f \cup {p} |-> IF q = p THEN FileNode(c) ELSE f[q]]]

\* fs.readFile
readFile(f, p) ==
    IF IsDir(f, p) THEN [err |-> "EISDIR", data |-> Raw(<<>>)]
    ELSE IF AncestorIsFile(f, p) THEN [err |-> "ENOTDIR", data |-> Raw(<<>>)]
    ELSE IF p \notin DOMAIN f THEN [err |-> "ENOENT", data |-> Raw(<<>>)]
    ELSE [err |-> "", data |-> f[p].data]

\* fs.stat
stat(f, p) ==
    IF AncestorIsFile(f, p) THEN "ENOTDIR"
    ELSE IF p \notin DOMAIN f THEN "ENOENT"
    ELSE ""

\* fs.remove: fs.rm(path, {recursive: true, force: true}); force forgives
\* only ENOENT
remove(f, p) ==
    IF AncestorIsFile(f, p) THEN [err |-> "ENOTDIR", fs |-> f]
    ELSE [err |-> "",
          fs |-> [q \in {r \in DOMAIN f : ~IsPrefixOf(p, r)} |-> f[q]]]

\* the path of q, which lies below src, moved below dst
Rebase(q, src, dst) == dst \o SubSeq(q, Len(src) + 1, Len(q))

\* fs.copy inside the file system: a file replaces a file, a directory is
\* merged into a directory, the destination's parent is created
copyPath(f, src, dst) ==
    IF stat(f, src) # "" THEN [err |-> stat(f, src), fs |-> f]
    ELSE IF AncestorIsFile(f, dst) THEN [err |-> "ENOTDIR", fs |-> f]
    ELSE IF src = dst THEN [err |-> "ESAME", fs |-> f]
    ELSE IF dst \in DOMAIN f /\ f[dst].dir # f[src].dir THEN [err |-> "EKIND", fs |-> f]
    ELSE IF f[src].dir /\ IsPrefixOf(src, dst) THEN [err |-> "ESUBDIR", fs |-> f]
    ELSE LET g == ensureDir(f, dirname(dst)).fs
             sub == {q \in DOMAIN f : IsPrefixOf(src, q)}
             new == {Rebase(q, src, dst) : q \in sub}
             clash == \E q \in sub : Rebase(q, src, dst) \in DOMAIN g
                                     /\ g[Rebase(q, src, dst)].dir # f[q].dir
         IN  IF clash THEN [err |-> "EKIND", fs |-> g]
             ELSE [err |-> "",
                   fs |-> [q \in DOMAIN g \cup new |->
                             IF q \in new
                             THEN f[CHOOSE r \in sub : Rebase(r, src, dst) = q]
                             ELSE g[q]]]

\* fs.copy of a regular file from outside the store to dst
copyIn(f, c, dst) ==
    IF AncestorIsFile(f, dst) THEN [err |-> "ENOTDIR", fs |-> f]
    ELSE IF IsDir(f, dst) THEN [err |-> "EKIND", fs |-> f]
    ELSE writeFile(ensureDir(f, dirname(dst)).fs, dst, c)

\* fs.copy from the store to a path outside it where nothing exists yet:
\* [err, node], node is what the path holds afterwards
copyOut(f, src) ==
    IF stat(f, src) # "" THEN [err |-> stat(f, src), node |-> NoNode]
    ELSE [err |-> "", node |-> f[src]]

-----------------------------------------------------------------------------
(* The inputs of the calls *)

KeyA == <<"a">>
KeyAB == <<"a", "/", "b">>
KeySp == <<"a", " ", "b">>
KeyUs == <<"a", "_", "b">>
KeyMeta == <<".metadata", "/", "a", ".json">>

Keys == {KeyA, KeyAB, KeySp, KeyUs, KeyMeta}

\* the regular files that exist outside the store, by the path string that
\* names them: what fs.existsSync(data) and fs.copy(data, ...) see
localFiles == (<<"a", ".json">> :> Raw(<<"7b", "7d", "0a">>))

\* mimeTypes.lookup(path): by the extension, false ("") when it has none
mimeLookup(path) ==
    IF path # <<>> /\ path[Len(path)] = ".json" THEN "application/json" ELSE ""

BufData == [type |-> "buffer", val |-> <<"01", "02">>]
StrData == [type |-> "string", val |-> <<"a", "b", "a">>]
PathData == [type |-> "string", val |-> <<"a", ".json">>]

Datas == {BufData, StrData, PathData}

\* typeof data === 'string' && fs.existsSync(data)
IsLocalPath(d) == d.type = "string" /\ d.val \in DOMAIN localFiles

\* Buffer.isBuffer(data) ? data : Buffer.from(data)
toBuffer(d) == IF d.type = "buffer" THEN d.val ELSE BufferFrom(d.val)

\* an optional value is the empty set or a singleton
None == {}
Some(x) == {x}
Get(o) == CHOOSE x \in o : TRUE

UserMeta == [k \in {"user-id"} |-> "12345"]
NoMeta == [k \in {} |-> ""]

NoOptions == [contentType |-> None, metadata |-> None]
FullOptions == [contentType |-> Some("text/plain"), metadata |-> Some(UserMeta)]

Options == {NoOptions, FullOptions}

\* x || y for an optional x
OrElse(o, y) == IF o = None THEN y ELSE Get(o)

-----------------------------------------------------------------------------
(* Errors and results *)

NoKey == <<>>

\* new Error(`<wrap><message>`): the message is "Object '<key>' not found"
\* (code "not found", with the key it names) or the message of a failed
\* file system call (its errno code)
Error(wrap, code, key) == [wrap |-> wrap, code |-> code, key |-> key]

NoError == Error("", "", NoKey)
NoVal == [none |-> TRUE]

\* dest: what the destination path of a download holds after the call
Returned(op, key, val) ==
    [op |-> op, key |-> key, ok |-> TRUE, err |-> NoError, val |-> val, dest |-> NoNode]
Threw(op, key, e) ==
    [op |-> op, key |-> key, ok |-> FALSE, err |-> e, val |-> NoVal, dest |-> NoNode]

NodeAt(f, p) == IF p \in DOMAIN f THEN f[p] ELSE NoNode

-----------------------------------------------------------------------------
(* upload, one step per awaited file system call (local.js:28-80).  A call  *)
(* in flight is a record; pc names the await it is suspended at.            *)

NewUpload(key, data, options) ==
    [pc |-> "ensureDir", key |-> key, data |-> data, options |-> options,
     contentLength |-> 0, contentType |-> options.contentType,
     hash |-> md5(Raw(<<>>)), code |-> "",
     \* not of the code: the calls that had ended when this one began
     before |-> {}]

UploadThrew(t, code) == [t EXCEPT !.pc = "threw", !.code = code]

\* local.js:35  await fs.ensureDir(path.dirname(filePath))
uploadEnsureDir(f, t) ==
    LET r == ensureDir(f, dirname(_getFilePath(t.key)))
    IN  IF r.err # "" THEN [fs |-> r.fs, task |-> UploadThrew(t, r.err)]
        ELSE [fs |-> r.fs,
              task |-> [t EXCEPT !.pc = IF IsLocalPath(t.data) THEN "copy" ELSE "writeFile"]]

\* local.js:41  await fs.copy(data, filePath)
uploadCopy(f, t) ==
    LET r == copyIn(f, localFiles[t.data.val], _getFilePath(t.key))
    IN  IF r.err # "" THEN [fs |-> r.fs, task |-> UploadThrew(t, r.err)]
        ELSE [fs |-> r.fs, task |-> [t EXCEPT !.pc = "stat"]]

\* local.js:42-47  const stats = await fs.stat(filePath); contentLength, contentType
uploadStat(f, t) ==
    LET p == _getFilePath(t.key)
    IN  IF stat(f, p) # "" THEN [fs |-> f, task |-> UploadThrew(t, stat(f, p))]
        ELSE [fs |-> f,
              task |-> [t EXCEPT !.pc = "hash",
                                 !.contentLength = byteLength(f[p].data),
                                 !.contentType =
                                     IF t.contentType # None THEN t.contentType
                                     ELSE IF mimeLookup(t.data.val) # ""
                                          THEN Some(mimeLookup(t.data.val))
                                          ELSE Some("application/octet-stream")]]

\* a variant of the content write that leaves a string's encoding out
uploadWriteFileUnencoded(f, t) ==
    LET r == writeFile(f, _getFilePath(t.key), Raw(t.data.val))
    IN  IF r.err # "" THEN [fs |-> r.fs, task |-> UploadThrew(t, r.err)]
        ELSE [fs |-> r.fs,
              task |-> [t EXCEPT !.pc = "hash", !.contentLength = Len(toBuffer(t.data))]]

\* local.js:49-51  await fs.writeFile(filePath, buffer); contentLength = buffer.length
uploadWriteFile(f, t) ==
    LET r == writeFile(f, _getFilePath(t.key), Raw(toBuffer(t.data)))
    IN  IF r.err # "" THEN [fs |-> r.fs, task |-> UploadThrew(t, r.err)]
        ELSE [fs |-> r.fs,
              task |-> [t EXCEPT !.pc = "hash", !.contentLength = Len(toBuffer(t.data))]]

\* a variant of the digest that reads nothing of the file
_calculateHashOfNothing(f, p) ==
    LET r == readFile(f, p)
    IN  [err |-> r.err, hash |-> md5(Raw(<<>>))]

\* local.js:274-283  the digest of what the file holds when it is read
_calculateHash(f, p) ==
    LET r == readFile(f, p)
    IN  [err |-> r.err, hash |-> md5(r.data)]

\* local.js:54  const hash = await this._calculateHash(filePath)
uploadHash(f, t) ==
    LET r == _calculateHash(f, _getFilePath(t.key))
    IN  IF r.err # "" THEN [fs |-> f, task |-> UploadThrew(t, r.err)]
        ELSE [fs |-> f, task |-> [t EXCEPT !.pc = "writeMeta", !.hash = r.hash]]

\* a variant of the sidecar record that leaves the caller's metadata out
uploadMetadataWithoutUser(t, clock) ==
    [key |-> t.key,
     size |-> t.contentLength,
     contentType |-> OrElse(t.contentType, "application/octet-stream"),
     hash |-> t.hash,
     uploadTime |-> clock,
     metadata |-> NoMeta]

\* local.js:55-62  the sidecar record
uploadMetadata(t, clock) ==
    [key |-> t.key,
     size |-> t.contentLength,
     contentType |-> OrElse(t.contentType, "application/octet-stream"),
     hash |-> t.hash,
     uploadTime |-> clock,
     metadata |-> OrElse(t.options.metadata, NoMeta)]

\* a variant of the sidecar write that keeps a sidecar it finds
uploadWriteMetaOnce(f, t, clock) ==
    LET r == writeFile(f, _getMetadataPath(t.key), JSONstringify(uploadMetadata(t, clock)))
    IN  IF pathExists(f, _getMetadataPath(t.key))
        THEN [fs |-> f, task |-> [t EXCEPT !.pc = "returned"]]
        ELSE IF r.err # "" THEN [fs |-> r.fs, task |-> UploadThrew(t, r.err)]
        ELSE [fs |-> r.fs, task |-> [t EXCEPT !.pc = "returned"]]

\* local.js:64  await fs.writeFile(metadataFile, JSON.stringify(metadata, null, 2))
uploadWriteMeta(f, t, clock) ==
    LET r == writeFile(f, _getMetadataPath(t.key), JSONstringify(uploadMetadata(t, clock)))
    IN  IF r.err # "" THEN [fs |-> r.fs, task |-> UploadThrew(t, r.err)]
        ELSE [fs |-> r.fs, task |-> [t EXCEPT !.pc = "returned"]]

UploadRunning(t) == t.pc \in {"ensureDir", "copy", "stat", "writeFile", "hash", "writeMeta"}

\* the next step of an upload in flight
uploadStep(f, t, clock) ==
    CASE t.pc = "ensureDir" -> uploadEnsureDir(f, t)
      [] t.pc = "copy" -> uploadCopy(f, t)
      [] t.pc = "stat" -> uploadStat(f, t)
      [] t.pc = "writeFile" -> uploadWriteFile(f, t)
      [] t.pc = "hash" -> uploadHash(f, t)
      [] t.pc = "writeMeta" -> uploadWriteMeta(f, t, clock)

\* local.js:68-79  what the finished call gives its caller
uploadOutcome(t) ==
    IF t.pc = "returned"
    THEN Returned("upload", t.key,
                  [success |-> TRUE, key |-> t.key, location |-> _getFilePath(t.key),
                   etag |-> t.hash, size |-> t.contentLength, provider |-> "local"])
    ELSE Threw("upload", t.key, Error("Local storage upload failed: ", t.code, NoKey))

\* an upload that no other call overlaps: its steps one after the other
RECURSIVE uploadRun(_, _, _)
uploadRun(f, t, clock) ==
    IF ~UploadRunning(t) THEN [fs |-> f, ret |-> uploadOutcome(t)]
    ELSE LET s == uploadStep(f, t, clock) IN uploadRun(s.fs, s.task, clock)

-----------------------------------------------------------------------------
(* The other calls, each without overlap: [fs, ret] (a read: ret)           *)

\* local.js:82-110, to a destination path where nothing exists yet
downloadRun(f, key) ==
    LET filePath == _getFilePath(key)
        wrap == "Local storage download failed: "
        c == copyOut(f, filePath)
    IN  IF ~pathExists(f, filePath)
        THEN Threw("download", key, Error(wrap, "not found", key))
        ELSE IF c.err # ""
        THEN [Threw("download", key, Error(wrap, c.err, NoKey)) EXCEPT !.dest = c.node]
        ELSE [Returned("download", key,
                       [success |-> TRUE, key |-> key,
                        size |-> byteLength(c.node.data), provider |-> "local"])
              EXCEPT !.dest = c.node]

\* local.js:112-137
getMetadataRun(f, key) ==
    LET metadataFile == _getMetadataPath(key)
        filePath == _getFilePath(key)
        wrap == "Failed to get metadata: "
        text == readFile(f, metadataFile)
        parsed == JSONparse(text.data)
        metadata == parsed.rec
    IN  IF ~pathExists(f, metadataFile)
        THEN Threw("getMetadata", key, Error(wrap, "not found", key))
        ELSE IF text.err # "" THEN Threw("getMetadata", key, Error(wrap, text.err, NoKey))
        ELSE IF ~parsed.ok THEN Threw("getMetadata", key, Error(wrap, "SyntaxError", NoKey))
        ELSE IF stat(f, filePath) # ""
        THEN Threw("getMetadata", key, Error(wrap, stat(f, filePath), NoKey))
        ELSE Returned("getMetadata", key,
                      [key |-> key, size |-> metadata.size, etag |-> metadata.hash,
                       contentType |-> metadata.contentType,
                       metadata |-> metadata.metadata, provider |-> "local"])

\* local.js:184-200
deleteRun(f, key) ==
    LET wrap == "Local storage delete failed: "
        r1 == remove(f, _getFilePath(key))
        r2 == remove(r1.fs, _getMetadataPath(key))
    IN  IF r1.err # ""
        THEN [fs |-> r1.fs, ret |-> Threw("delete", key, Error(wrap, r1.err, NoKey))]
        ELSE IF r2.err # ""
        THEN [fs |-> r2.fs, ret |-> Threw("delete", key, Error(wrap, r2.err, NoKey))]
        ELSE [fs |-> r2.fs,
              ret |-> Returned("delete", key,
                               [success |-> TRUE, key |-> key, provider |-> "local"])]

\* local.js:202-209
existsRun(f, key) ==
    Returned("exists", key, [exists |-> pathExists(f, _getFilePath(key))])

\* local.js:211-225 (no try/catch: the error is not wrapped)
getSignedUrlRun(f, key) ==
    IF ~pathExists(f, _getFilePath(key))
    THEN Threw("getSignedUrl", key, Error("", "not found", key))
    ELSE Returned("getSignedUrl", key,
                  [url |-> <<"file://", _getFilePath(key)>>, provider |-> "local"])

\* local.js:227-261
copyRun(f, sourceKey, destinationKey, clock) ==
    LET wrap == "Local storage copy failed: "
        sourceFilePath == _getFilePath(sourceKey)
        destinationFilePath == _getFilePath(destinationKey)
        sourceMetadataPath == _getMetadataPath(sourceKey)
        destinationMetadataPath == _getMetadataPath(destinationKey)
        r1 == ensureDir(f, dirname(destinationFilePath))
        r2 == copyPath(r1.fs, sourceFilePath, destinationFilePath)
        text == readFile(r2.fs, sourceMetadataPath)
        parsed == JSONparse(text.data)
        destinationMetadata == [parsed.rec EXCEPT !.key = destinationKey, !.uploadTime = clock]
        r3 == writeFile(r2.fs, destinationMetadataPath, JSONstringify(destinationMetadata))
        Fail(g, code) == [fs |-> g, ret |-> Threw("copy", sourceKey, Error(wrap, code, NoKey))]
    IN  IF ~pathExists(f, sourceFilePath)
        THEN [fs |-> f, ret |-> Threw("copy", sourceKey,
                                      [wrap |-> wrap, code |-> "not found", key |-> sourceKey])]
        ELSE IF r1.err # "" THEN Fail(r1.fs, r1.err)
        ELSE IF r2.err # "" THEN Fail(r2.fs, r2.err)
        ELSE IF text.err # "" THEN Fail(r2.fs, text.err)
        ELSE IF ~parsed.ok THEN Fail(r2.fs, "SyntaxError")
        ELSE IF r3.err # "" THEN Fail(r3.fs, r3.err)
        ELSE [fs |-> r3.fs,
              ret |-> Returned("copy", sourceKey,
                               [success |-> TRUE, sourceKey |-> sourceKey,
                                destinationKey |-> destinationKey, provider |-> "local"])]

\* local.js:15-26 (validateConfig passes: the provider has a configuration)
initializeRun(f) ==
    LET wrap == "Failed to initialize local storage: "
        r1 == ensureDir(f, basePath)
        r2 == ensureDir(r1.fs, metadataPath)
    IN  IF r1.err # ""
        THEN [fs |-> r1.fs, ret |-> Threw("initialize", NoKey, Error(wrap, r1.err, NoKey))]
        ELSE IF r2.err # ""
        THEN [fs |-> r2.fs, ret |-> Threw("initialize", NoKey, Error(wrap, r2.err, NoKey))]
        ELSE [fs |-> r2.fs, ret |-> Returned("initialize", NoKey, NoVal)]

-----------------------------------------------------------------------------
(* list (local.js:139-182) *)

\* options.limit || 1000
DefaultLimit == 1000

\* the sequences that enumerate the set S, each element once
RECURSIVE Enumerations(_)
Enumerations(S) ==
    IF S = {} THEN {<<>>}
    ELSE UNION {{<<x>> \o t : t \in Enumerations(S \ {x})} : x \in S}

\* item.endsWith('.json') for the last segment of a path
endsWithJson(p) == p # <<>> /\ p[Len(p)][Len(p[Len(p)])] = ".json"

\* local.js:285-303  the walk visits the regular files named *.json below dir;
\* fs.readdir fixes no order, and the files below one subdirectory are
\* visited together
_findMetadataFiles(f, dir) ==
    LET files == {p \in DOMAIN f : IsPrefixOf(dir, p) /\ IsFile(f, p) /\ endsWithJson(p)}
        subdirs == {p \in DOMAIN f : IsPrefixOf(dir, p) /\ p # dir /\ IsDir(f, p)}
        Together(s) == \A d \in subdirs : \A i, j, k \in DOMAIN s :
                          (i < j /\ j < k /\ IsPrefixOf(d, s[i]) /\ IsPrefixOf(d, s[k]))
                              => IsPrefixOf(d, s[j])
    IN  {s \in Enumerations(files) : Together(s)}

\* the collation order of the characters under String.prototype.localeCompare
Collation == <<" ", "_", ".", ".json", ".metadata", "/", "a", "b">>

Rank(ch) == CHOOSE i \in DOMAIN Collation : Collation[i] = ch

\* a.localeCompare(b) <= 0
RECURSIVE localeCompareLeq(_, _)
localeCompareLeq(a, b) ==
    IF a = <<>> THEN TRUE
    ELSE IF b = <<>> THEN FALSE
    ELSE IF Head(a) = Head(b) THEN localeCompareLeq(Tail(a), Tail(b))
    ELSE Rank(Head(a)) < Rank(Head(b))

\* Array.prototype.sort by key: stable insertion
RECURSIVE InsertByKey(_, _)
InsertByKey(sorted, x) ==
    IF sorted = <<>> THEN <<x>>
    ELSE IF localeCompareLeq(sorted[Len(sorted)].key, x.key) THEN Append(sorted, x)
    ELSE Append(InsertByKey(SubSeq(sorted, 1, Len(sorted) - 1), x), sorted[Len(sorted)])

RECURSIVE sortByKey(_)
sortByKey(objects) ==
    IF objects = <<>> THEN <<>>
    ELSE InsertByKey(sortByKey(SubSeq(objects, 1, Len(objects) - 1)), objects[Len(objects)])

\* a loop that a sidecar it cannot use ends
RECURSIVE listLoopEndedBySkip(_, _, _, _, _, _)
listLoopEndedBySkip(f, metadataFiles, i, prefix, limit, objects) ==
    IF i > Len(metadataFiles) \/ Len(objects) >= limit THEN objects
    ELSE LET parsed == JSONparse(f[metadataFiles[i]].data)
             metadata == parsed.rec
         IN  IF ~parsed.ok THEN objects
             ELSE IF prefix # <<>> /\ ~startsWith(metadata.key, prefix)
                  THEN listLoopEndedBySkip(f, metadataFiles, i + 1, prefix, limit, objects)
             ELSE IF stat(f, _getFilePath(metadata.key)) # "" THEN objects
             ELSE listLoopEndedBySkip(f, metadataFiles, i + 1, prefix, limit,
                           Append(objects, [key |-> metadata.key, size |-> metadata.size,
                                            etag |-> metadata.hash,
                                            contentType |-> metadata.contentType]))

\* local.js:147-172  the loop over the sidecars found, from the i-th on
RECURSIVE listLoop(_, _, _, _, _, _)
listLoop(f, metadataFiles, i, prefix, limit, objects) ==
    IF i > Len(metadataFiles) \/ Len(objects) >= limit THEN objects
    ELSE LET parsed == JSONparse(f[metadataFiles[i]].data)
             metadata == parsed.rec
         IN  IF ~parsed.ok THEN listLoop(f, metadataFiles, i + 1, prefix, limit, objects)
             ELSE IF prefix # <<>> /\ ~startsWith(metadata.key, prefix)
                  THEN listLoop(f, metadataFiles, i + 1, prefix, limit, objects)
             ELSE IF stat(f, _getFilePath(metadata.key)) # ""
                  THEN listLoop(f, metadataFiles, i + 1, prefix, limit, objects)
             ELSE listLoop(f, metadataFiles, i + 1, prefix, limit,
                           Append(objects, [key |-> metadata.key, size |-> metadata.size,
                                            etag |-> metadata.hash,
                                            contentType |-> metadata.contentType]))

\* list({prefix, limit}) when the walk found metadataFiles, in that order
listRun(f, metadataFiles, prefix, limitOption) ==
    LET limit == IF limitOption = 0 THEN DefaultLimit ELSE limitOption
        objects == listLoop(f, metadataFiles, 1, prefix, limit, <<>>)
    IN  Returned("list", prefix,
                 [objects |-> sortByKey(objects),
                  isTruncated |-> Len(objects) >= limit,
                  provider |-> "local",
                  \* not of the result: the limit the call was given
                  limit |-> limit])

\* the walk fails when the metadata directory is missing
listThrew(prefix) ==
    Threw("list", prefix, Error("Local storage list failed: ", "ENOENT", NoKey))

ListPrefixes == {<<>>, <<"a">>, <<"a", "_">>}
ListLimits == {0, 1}

-----------------------------------------------------------------------------
(* The state *)

Idle == [pc |-> "idle"]

\* no caller is paging through a listing
PagerIdle ==
    [pc |-> "idle", prefix |-> <<>>, limit |-> 0, token |-> None,
     received |-> {}, twice |-> FALSE, over |-> FALSE, pages |-> 0]

\* the cloud adapters, by the name their constructors set
Backends == {"aws", "gcp", "azure"}

\* no adapter has been called; the buckets and the container are empty
CloudIdle ==
    [objects |-> [provider \in Backends |-> {}],
     ret |-> [provider |-> "", key |-> NoKey, ok |-> TRUE, err |-> NoError,
              absent |-> FALSE]]
\* a provider configuration: the fields of it that hold a truthy value;
\* this one is undefined
NoConfig == [defined |-> FALSE, fields |-> {}]

\* the factory has not been called: no error (err) and no object (val)
FacIdle ==
    [op |-> "", providerName |-> <<>>, config |-> NoConfig, ok |-> TRUE,
     err |-> [type |-> "", message |-> <<>>],
     val |-> [class |-> "", config |-> NoConfig, initialized |-> FALSE],
     calls |-> <<>>]

\* new TestRunner(config): no results, run not called yet.  i counts the
\* providers the loop of run has taken up; todo and tests are the suite's
\* remaining tests and testResult.tests of the provider under test; log is
\* the calls made so far, each with the message of what it threw.  testKey
\* is this.testKey, which the constructor leaves undefined: a key with no
\* prefix.  drawn counts the keys generateTestKey has made, stored holds the
\* keys of the objects that the providers keep from the tests' uploads
RunnerIdle ==
    [pc |-> "idle", type |-> "", providersToTest |-> <<>>, i |-> 0,
     todo |-> <<>>, tests |-> <<>>, results |-> <<>>, log |-> <<>>,
     testKey |-> [prefix |-> "", serial |-> 0, run |-> 0],
     drawn |-> 0, stored |-> {}]

\* what the record of the last upload of a key remembers
UploadRecord(t, r, previous) ==
    [data |-> t.data, options |-> t.options, etag |-> r.val.etag, size |-> r.val.size,
     \* the upload it overwrote, if the key held one: its data and options
     over |-> {[data |-> u.data, options |-> u.options] : u \in previous}]

\* the call that took the files from f to g changed the content file or the
\* sidecar of key
Touched(f, g, key) ==
    \/ NodeAt(f, _getFilePath(key)) # NodeAt(g, _getFilePath(key))
    \/ NodeAt(f, _getMetadataPath(key)) # NodeAt(g, _getMetadataPath(key))

\* lastUp after a call that took the files from f to g; up is the upload it
\* completed, if any
Remember(f, g, up) ==
    [k \in Keys |->
        IF up # None /\ Get(up).key = k THEN {Get(up).rec}
        ELSE IF Touched(f, g, k) THEN {}
        ELSE lastUp[k]]

\* after new LocalStorageProvider(config): nothing exists yet below the root
Init ==
    /\ fs = (<<>> :> DirNode)
    /\ ret = Returned("constructor", NoKey, NoVal)
    /\ lastUp = [k \in Keys |-> {}]
    /\ written = {}
    /\ now = 0
    /\ nops = 0
    /\ tasks = [i \in 1..MaxTasks |-> Idle]
    /\ pager = PagerIdle
    /\ cloud = CloudIdle
    /\ fac = FacIdle
    /\ runner = RunnerIdle

-----------------------------------------------------------------------------
(* The calls, none overlapping another *)

initialize ==
    LET r == initializeRun(fs)
    IN  /\ fs' = r.fs
        /\ ret' = r.ret
        /\ lastUp' = Remember(fs, r.fs, None)
        /\ UNCHANGED <<written, now, nops, tasks>>
        /\ UNCHANGED <<pager, cloud, fac, runner>>

upload(key, data, options) ==
    /\ nops < MaxOps
    /\ LET t == NewUpload(key, data, options)
           r == uploadRun(fs, t, now)
       IN  /\ fs' = r.fs
           /\ ret' = r.ret
           /\ lastUp' = Remember(fs, r.fs,
                                 IF r.ret.ok
                                 THEN Some([key |-> key,
                                            rec |-> UploadRecord(t, r.ret,
                                                        IF key \in Keys THEN lastUp[key]
                                                        ELSE {})])
                                 ELSE None)
    /\ written' = written \cup {key}
    /\ nops' = nops + 1
    /\ UNCHANGED <<now, tasks>>
    /\ UNCHANGED <<pager, cloud, fac, runner>>

download(key) ==
    /\ ret' = downloadRun(fs, key)
    /\ UNCHANGED <<fs, lastUp, written, now, nops, tasks>>
    /\ UNCHANGED <<pager, cloud, fac, runner>>

getMetadata(key) ==
    /\ ret' = getMetadataRun(fs, key)
    /\ UNCHANGED <<fs, lastUp, written, now, nops, tasks>>
    /\ UNCHANGED <<pager, cloud, fac, runner>>

list(prefix, limitOption) ==
    /\ IF pathExists(fs, metadataPath) /\ IsDir(fs, metadataPath)
       THEN \E metadataFiles \in _findMetadataFiles(fs, metadataPath) :
                ret' = listRun(fs, metadataFiles, prefix, limitOption)
       ELSE ret' = listThrew(prefix)
    /\ UNCHANGED <<fs, lastUp, written, now, nops, tasks>>
    /\ UNCHANGED <<pager, cloud, fac, runner>>

delete(key) ==
    /\ nops < MaxOps
    /\ LET r == deleteRun(fs, key)
       IN  /\ fs' = r.fs
           /\ ret' = r.ret
           /\ lastUp' = Remember(fs, r.fs, None)
           /\ written' = IF r.ret.ok THEN written \ {key} ELSE written
    /\ nops' = nops + 1
    /\ UNCHANGED <<now, tasks>>
    /\ UNCHANGED <<pager, cloud, fac, runner>>

exists(key) ==
    /\ ret' = existsRun(fs, key)
    /\ UNCHANGED <<fs, lastUp, written, now, nops, tasks>>
    /\ UNCHANGED <<pager, cloud, fac, runner>>

getSignedUrl(key) ==
    /\ ret' = getSignedUrlRun(fs, key)
    /\ UNCHANGED <<fs, lastUp, written, now, nops, tasks>>
    /\ UNCHANGED <<pager, cloud, fac, runner>>

copy(sourceKey, destinationKey) ==
    /\ nops < MaxOps
    /\ LET r == copyRun(fs, sourceKey, destinationKey, now)
       IN  /\ fs' = r.fs
           /\ ret' = r.ret
           /\ lastUp' = Remember(fs, r.fs, None)
    /\ written' = written \cup {destinationKey}
    /\ nops' = nops + 1
    /\ UNCHANGED <<now, tasks>>
    /\ UNCHANGED <<pager, cloud, fac, runner>>

\* time passes
Tick ==
    /\ now < MaxTime
    /\ now' = now + 1
    /\ UNCHANGED <<fs, ret, lastUp, written, nops, tasks>>
    /\ UNCHANGED <<pager, cloud, fac, runner>>

Next ==
    \/ initialize
    \/ \E key \in Keys, data \in Datas, options \in Options : upload(key, data, options)
    \/ \E key \in Keys : download(key)
    \/ \E key \in Keys : getMetadata(key)
    \/ \E prefix \in ListPrefixes, limitOption \in ListLimits : list(prefix, limitOption)
    \/ \E key \in Keys : delete(key)
    \/ \E key \in Keys : exists(key)
    \/ \E key \in Keys : getSignedUrl(key)
    \/ \E sourceKey \in Keys, destinationKey \in Keys : copy(sourceKey, destinationKey)
    \/ Tick

Spec == Init /\ [][Next]_vars

-----------------------------------------------------------------------------
(* Uploads that overlap: every awaited file system call is a step of its    *)
(* own, and the steps of the calls in flight interleave (one thread, the    *)
(* event loop resumes one call at a time).                                  *)

ConcKeys == {KeyA, KeySp, KeyUs}
ConcDatas == {BufData, StrData}

Ended(t) == t.pc \in {"returned", "threw", "aborted"}

\* provider.upload(key, data) is called: the call runs to its first await
startUpload(i, key, data) ==
    /\ tasks[i] = Idle
    /\ tasks' = [tasks EXCEPT ![i] =
                    [NewUpload(key, data, NoOptions) EXCEPT
                        !.before = {j \in DOMAIN tasks : Ended(tasks[j])}]]
    /\ UNCHANGED <<fs, ret, lastUp, written, now, nops>>
    /\ UNCHANGED <<pager, cloud, fac, runner>>

\* the file system call that upload i awaits completes and the call resumes
stepUpload(i) ==
    /\ tasks[i] # Idle
    /\ UploadRunning(tasks[i])
    /\ LET s == uploadStep(fs, tasks[i], now)
       IN  /\ fs' = s.fs
           /\ tasks' = [tasks EXCEPT ![i] = s.task]
           /\ ret' = IF UploadRunning(s.task) THEN ret ELSE uploadOutcome(s.task)
    /\ UNCHANGED <<lastUp, written, now, nops>>
    /\ UNCHANGED <<pager, cloud, fac, runner>>

\* upload i ends at the await it is suspended at, after its first file step:
\* the process crashed, or the awaited call failed
abortUpload(i) ==
    /\ tasks[i] # Idle
    /\ UploadRunning(tasks[i])
    /\ tasks[i].pc # "ensureDir"
    /\ tasks' = [tasks EXCEPT ![i].pc = "aborted"]
    /\ ret' = Threw("upload", tasks[i].key,
                    Error("Local storage upload failed: ", "aborted", NoKey))
    /\ UNCHANGED <<fs, lastUp, written, now, nops>>
    /\ UNCHANGED <<pager, cloud, fac, runner>>

NextConc ==
    \/ initialize
    \/ \E i \in 1..MaxTasks, key \in ConcKeys, data \in ConcDatas : startUpload(i, key, data)
    \/ \E i \in 1..MaxTasks : stepUpload(i)
    \/ \E i \in 1..MaxTasks : abortUpload(i)
    \/ \E key \in ConcKeys : download(key)
    \/ \E key \in ConcKeys : getMetadata(key)
    \/ \E key \in ConcKeys : exists(key)
    \/ \E key \in ConcKeys : getSignedUrl(key)
    \/ \E prefix \in ListPrefixes, limitOption \in ListLimits : list(prefix, limitOption)

SpecConc == Init /\ [][NextConc]_vars

-----------------------------------------------------------------------------
(* A delete that overlaps other calls: each of its two awaited fs.remove    *)
(* calls is a step (local.js:189-190), and the steps of the calls in flight *)
(* interleave.                                                              *)

OverlapKeys == {KeyA, KeyUs}

\* provider.delete(key) is called: the call runs to its first await
startDelete(i, key) ==
    /\ tasks[i] = Idle
    /\ tasks' = [tasks EXCEPT ![i] = [pc |-> "removeFile", key |-> key, call |-> "delete"]]
    /\ UNCHANGED <<fs, ret, lastUp, written, now, nops>>
    /\ UNCHANGED <<pager, cloud, fac, runner>>

\* the fs.remove that delete i awaits completes and the call resumes: with
\* the second remove, or with its result or its catch
stepDelete(i) ==
    /\ tasks[i] # Idle
    /\ tasks[i].pc \in {"removeFile", "removeMeta"}
    /\ LET key == tasks[i].key
           r == IF tasks[i].pc = "removeFile" THEN remove(fs, _getFilePath(key))
                ELSE remove(fs, _getMetadataPath(key))
       IN  /\ fs' = r.fs
           /\ tasks' = [tasks EXCEPT ![i].pc =
                           IF r.err # "" THEN "threw"
                           ELSE IF @ = "removeFile" THEN "removeMeta"
                           ELSE "returned"]
           /\ ret' = IF r.err # ""
                     THEN Threw("delete", key,
                                Error("Local storage delete failed: ", r.err, NoKey))
                     ELSE IF tasks[i].pc = "removeFile" THEN ret
                     ELSE Returned("delete", key,
                                   [success |-> TRUE, key |-> key, provider |-> "local"])
    /\ UNCHANGED <<lastUp, written, now, nops>>
    /\ UNCHANGED <<pager, cloud, fac, runner>>

\* uploads and deletes in flight, next to uploads that nothing overlaps and
\* listings
NextOverlap ==
    \/ initialize
    \/ \E i \in 1..MaxTasks, key \in OverlapKeys : startUpload(i, key, BufData)
    \/ \E i \in 1..MaxTasks : stepUpload(i)
    \/ \E i \in 1..MaxTasks, key \in OverlapKeys : startDelete(i, key)
    \/ \E i \in 1..MaxTasks : stepDelete(i)
    \/ \E key \in {KeyUs, KeyMeta} : upload(key, BufData, NoOptions)
    \/ \E prefix \in ListPrefixes, limitOption \in ListLimits : list(prefix, limitOption)

SpecOverlap == Init /\ [][NextOverlap]_vars

-----------------------------------------------------------------------------
(* Keys that name the base directory, its parent or the sidecar tree: the   *)
(* characters '.' and '/' pass sanitize (local.js:265), and path.join       *)
(* resolves the segments '.' and '..' (269, 272).                           *)

EscapeKeys ==
    {KeyA, <<".">>, <<".", ".">>, <<".", ".", "/", "a">>, <<"/", "a">>, <<".metadata">>}

NextEscape ==
    \/ initialize
    \/ \E key \in EscapeKeys : upload(key, BufData, NoOptions)
    \/ \E key \in EscapeKeys : copy(KeyA, key)
    \/ \E key \in EscapeKeys : delete(key)

SpecEscape == Init /\ [][NextEscape]_vars

-----------------------------------------------------------------------------
(* A caller that pages through a listing: it calls list with the token of   *)
(* the page before until a page says isTruncated = false.                   *)

PageKeys == {KeyA, KeySp}

\* the continuationToken of a list result: the result has no such field
continuationToken(r) == None

\* the caller has received the page r
Paged(r) ==
    LET keys == [n \in DOMAIN r.val.objects |-> r.val.objects[n].key]
        got == {keys[n] : n \in DOMAIN keys}
    IN  [pager EXCEPT
            !.pc = IF r.val.isTruncated THEN "calling" ELSE "done",
            !.token = continuationToken(r),
            !.received = pager.received \cup got,
            !.twice = \/ pager.twice
                      \/ got \cap pager.received # {}
                      \/ Cardinality(got) # Len(keys),
            !.over = pager.over \/ Len(keys) > r.val.limit,
            !.pages = IF pager.pages < MaxPages THEN pager.pages + 1 ELSE MaxPages]

\* the caller begins: no page yet, no token
pageStart(prefix, limitOption) ==
    /\ pager.pc = "idle"
    /\ pager' = [PagerIdle EXCEPT !.pc = "calling", !.prefix = prefix, !.limit = limitOption]
    /\ UNCHANGED <<storeVars, cloud, fac, runner>>

\* one turn of the caller's loop: list({prefix, limit, continuationToken}),
\* which reads prefix and limit only (local.js:145, 153)
pageCall ==
    /\ pager.pc = "calling"
    /\ IF pathExists(fs, metadataPath) /\ IsDir(fs, metadataPath)
       THEN \E metadataFiles \in _findMetadataFiles(fs, metadataPath) :
                \E r \in {listRun(fs, metadataFiles, pager.prefix, pager.limit)} :
                    pager' = Paged(r)
       ELSE pager' = [pager EXCEPT !.pc = "threw"]
    /\ UNCHANGED <<storeVars, cloud, fac, runner>>

\* the store is prepared and filled before the caller begins
pageInitialize == pager.pc = "idle" /\ initialize

pageUpload(key) == pager.pc = "idle" /\ upload(key, BufData, NoOptions)

NextPage ==
    \/ pageInitialize
    \/ \E key \in PageKeys : pageUpload(key)
    \/ \E prefix \in ListPrefixes, limitOption \in ListLimits : pageStart(prefix, limitOption)
    \/ pageCall
    \/ Tick

\* the caller keeps calling for as long as a page is truncated
SpecPage == Init /\ [][NextPage]_vars /\ WF_vars(pageCall)

-----------------------------------------------------------------------------
(* delete of the cloud adapters (AWS part_001:200-217, GCP part_001:492-505, *)
(* Azure azure.js:185-198).  The SDK call is outside the repository: on a    *)
(* key the bucket does not hold it either answers success or reports        *)
(* not-found, and the model leaves open which.                              *)

CloudKeys == {KeyA, KeyAB}

\* s3.deleteObject(params).promise(), file.delete(), blobClient.delete():
\* the outcomes the SDK call can have
sdkDelete(objects, key) ==
    IF key \in objects
    THEN {[code |-> "", objects |-> objects \ {key}]}
    ELSE {[code |-> "", objects |-> objects], [code |-> "NotFound", objects |-> objects]}

deleteWrap(provider) ==
    CASE provider = "aws" -> "AWS S3 delete failed: "
      [] provider = "gcp" -> "GCP Storage delete failed: "
      [] provider = "azure" -> "Azure Blob Storage delete failed: "

\* delete(key) of the adapter named provider, the SDK call ending as sdk
cloudDeleteRun(provider, key, sdk) ==
    [provider |-> provider, key |-> key, ok |-> sdk.code = "",
     err |-> IF sdk.code = "" THEN NoError
             ELSE Error(deleteWrap(provider), sdk.code, NoKey),
     absent |-> key \notin cloud.objects[provider]]

cloudDelete(provider, key) ==
    /\ \E sdk \in sdkDelete(cloud.objects[provider], key) :
           cloud' = [objects |-> [cloud.objects EXCEPT ![provider] = sdk.objects],
                     ret |-> cloudDeleteRun(provider, key, sdk)]
    /\ UNCHANGED <<storeVars, pager, fac, runner>>

\* an object comes to exist in a bucket
cloudPut(provider, key) ==
    /\ key \notin cloud.objects[provider]
    /\ cloud' = [cloud EXCEPT !.objects[provider] = @ \cup {key}]
    /\ UNCHANGED <<storeVars, pager, fac, runner>>

NextCloud ==
    \/ \E provider \in Backends, key \in CloudKeys : cloudPut(provider, key)
    \/ \E provider \in Backends, key \in CloudKeys : cloudDelete(provider, key)

SpecCloud == Init /\ [][NextCloud]_vars

-----------------------------------------------------------------------------
(* The factory (factory.js).  Provider names are sequences of characters,   *)
(* messages are sequences of text pieces and characters.  FacIdle.err is no *)
(* error, FacIdle.val no object.                                            *)

toLowerCase(s) ==
    LET upper == <<"A", "B", "C", "D", "E", "F", "G", "H", "I", "J", "K", "L", "M",
                   "N", "O", "P", "Q", "R", "S", "T", "U", "V", "W", "X", "Y", "Z">>
        lower == <<"a", "b", "c", "d", "e", "f", "g", "h", "i", "j", "k", "l", "m",
                   "n", "o", "p", "q", "r", "s", "t", "u", "v", "w", "x", "y", "z">>
        low(c) == IF \E i \in DOMAIN upper : upper[i] = c
                  THEN lower[CHOOSE i \in DOMAIN upper : upper[i] = c]
                  ELSE c
    IN  [i \in DOMAIN s |-> low(s[i])]

\* the object literal of create, in the order of its keys
providers ==
    << [key |-> <<"a", "w", "s">>, class |-> "AWSStorageProvider"],
       [key |-> <<"g", "c", "p">>, class |-> "GCPStorageProvider"],
       [key |-> <<"a", "z", "u", "r", "e">>, class |-> "AzureStorageProvider"],
       [key |-> <<"m", "i", "n", "i", "o">>, class |-> "MinioStorageProvider"],
       [key |-> <<"l", "o", "c", "a", "l">>, class |-> "LocalStorageProvider"] >>

\* the names create is called with: the known ones in several letter cases,
\* unknown ones, and the two lower-case names every object inherits
ProviderNames ==
    {providers[i].key : i \in DOMAIN providers}
        \cup {<<"A", "W", "S">>, <<"G", "c", "p">>, <<"A", "z", "u", "r", "e">>,
              <<"M", "I", "N", "I", "O">>, <<"L", "o", "c", "a", "L">>,
              <<"s", "3">>, <<>>,
              <<"c", "o", "n", "s", "t", "r", "u", "c", "t", "o", "r">>,
              <<"_", "_", "p", "r", "o", "t", "o", "_", "_">>}

\* the configurations it is called with: undefined, empty, partial, and one
\* that is complete for each provider
Configs ==
    {NoConfig} \cup
    {[defined |-> TRUE, fields |-> fields] : fields \in
        {{}, {"region", "bucket"},
         {"region", "bucket", "accessKeyId", "secretAccessKey"},
         {"projectId", "bucket", "keyFilename"},
         {"containerName", "connectionString"},
         {"endPoint", "accessKey", "secretKey", "bucket"},
         {"basePath"}}}

\* create(providerName, config): the outcomes [err, val].
\* new ProviderClass(config): the constructors read a field of config
\* (part_001:12, 317; azure.js:13; local.js:11); the one of
\* MinioStorageProvider is not in the repository, and what it does with an
\* undefined config is left open.  new Object(config) is config itself, or
\* an empty object: no provider.
create(providerName, config) ==
    LET name == toLowerCase(providerName)
        own == {i \in DOMAIN providers : providers[i].key = name}
        keys == [i \in DOMAIN providers |-> providers[i].key]
        RECURSIVE join(_)
        join(i) == IF i > Len(keys) THEN <<>>
                   ELSE IF i = Len(keys) THEN keys[i]
                   ELSE keys[i] \o <<", ">> \o join(i + 1)
        throw(type, message) ==
            [err |-> [type |-> type, message |-> message], val |-> FacIdle.val]
        new(ProviderClass) ==
            LET made == [err |-> FacIdle.err,
                         val |-> [class |-> ProviderClass, config |-> config,
                                  initialized |-> FALSE]]
                threw == throw("TypeError", <<"Cannot read properties of undefined">>)
            IN  IF config.defined \/ ProviderClass = "Object" THEN {made}
                ELSE IF ProviderClass = "MinioStorageProvider" THEN {made, threw}
                ELSE {threw}
    IN  IF own # {}
        THEN new(providers[CHOOSE i \in own : TRUE].class)
        \* inherited from Object.prototype: the function Object
        ELSE IF name = <<"c", "o", "n", "s", "t", "r", "u", "c", "t", "o", "r">>
        THEN new("Object")
        \* inherited from Object.prototype: an object that is no constructor
        ELSE IF name = <<"_", "_", "p", "r", "o", "t", "o", "_", "_">>
        THEN {throw("TypeError", <<"ProviderClass is not a constructor">>)}
        ELSE {throw("Error", <<"Unknown storage provider: ">> \o providerName
                                 \o <<". Available providers: ">> \o join(1))}

\* provider.initialize(): the outcomes [err, val].  An object that is no
\* provider has no such method.  validateConfig() throws for a configuration
\* that lacks a required field; past it the call reaches the backend, which
\* answers or fails.  MinioStorageProvider is not in the repository and is
\* taken to do the same, requiring no field.
initializeOutcomes(provider) ==
    LET has(field) == field \in provider.config.fields
        Missing(required) == \E field \in required : ~has(field)
        validateConfig ==
            CASE ~provider.config.defined -> <<"Configuration is required">>
              [] provider.class = "AWSStorageProvider"
                   /\ Missing({"region", "bucket", "accessKeyId", "secretAccessKey"})
                   -> <<"Missing required AWS configuration: ">>
              [] provider.class = "GCPStorageProvider" /\ Missing({"projectId", "bucket"})
                   -> <<"Missing required GCP configuration: ">>
              [] provider.class = "GCPStorageProvider"
                   /\ ~has("keyFilename") /\ ~has("credentials")
                   -> <<"Either keyFilename or credentials must be provided for GCP">>
              [] provider.class = "AzureStorageProvider" /\ ~has("containerName")
                   -> <<"Container name is required for Azure Blob Storage">>
              [] provider.class = "AzureStorageProvider" /\ ~has("connectionString")
                   /\ Missing({"accountName", "accountKey"})
                   -> <<"Missing required Azure configuration: ">>
              [] OTHER -> <<>>
        threw(type, message) ==
            [err |-> [type |-> type, message |-> message], val |-> provider]
    IN  IF provider.class = "Object"
        THEN {threw("TypeError", <<"provider.initialize is not a function">>)}
        ELSE IF validateConfig # <<>>
        THEN {threw("Error", validateConfig)}
        ELSE {[err |-> FacIdle.err, val |-> [provider EXCEPT !.initialized = TRUE]],
              threw("Error", <<"Failed to connect">>)}

\* a createAndInitialize that returns the provider whether or not its
\* initialize() threw
createAndInitializeSwallowing(providerName, config) ==
    {[op |-> "createAndInitialize", providerName |-> providerName, config |-> config,
      ok |-> made.err = FacIdle.err, err |-> made.err, val |-> made.val,
      calls |-> IF made.err = FacIdle.err THEN <<"create", "initialize">>
                ELSE <<"create">>]
     : made \in create(providerName, config)}

\* createAndInitialize(providerName, config): the outcomes, each with the
\* calls made
createAndInitialize(providerName, config) ==
    LET Outcome(ok, err, val, calls) ==
            [op |-> "createAndInitialize", providerName |-> providerName,
             config |-> config, ok |-> ok, err |-> err, val |-> val, calls |-> calls]
    IN  UNION {
          IF made.err # FacIdle.err
          THEN {Outcome(FALSE, made.err, FacIdle.val, <<"create">>)}
          ELSE {IF i.err # FacIdle.err
                THEN Outcome(FALSE, i.err, FacIdle.val, <<"create", "initialize">>)
                ELSE Outcome(TRUE, FacIdle.err, i.val, <<"create", "initialize">>)
                : i \in initializeOutcomes(made.val)}
          : made \in create(providerName, config)}

facCreate(providerName, config) ==
    /\ \E made \in create(providerName, config) :
           fac' = [op |-> "create", providerName |-> providerName, config |-> config,
                   ok |-> made.err = FacIdle.err, err |-> made.err, val |-> made.val,
                   calls |-> <<"create">>]
    /\ UNCHANGED <<storeVars, pager, cloud, runner>>

facCreateAndInitialize(providerName, config) ==
    /\ fac' \in createAndInitialize(providerName, config)
    /\ UNCHANGED <<storeVars, pager, cloud, runner>>

NextFactory ==
    \/ \E providerName \in ProviderNames, config \in Configs :
           facCreate(providerName, config)
    \/ \E providerName \in ProviderNames, config \in Configs :
           facCreateAndInitialize(providerName, config)

SpecFactory == Init /\ [][NextFactory]_vars

-----------------------------------------------------------------------------
(* The test runner (runner.js:6-79) over the configuration of the           *)
(* ConfigLoader (runner.js:413-577).  A test of a suite is a call that      *)
(* returns or throws; one action per awaited step of testProvider.          *)

\* config.providers, in the order of its keys: aws as the environment
\* defaults leave it, azure by connection string, local from a config file
ConfigFile ==
    << [key |-> <<"a", "w", "s">>,
        config |-> [defined |-> TRUE, fields |-> {"region", "bucket"}]],
       [key |-> <<"a", "z", "u", "r", "e">>,
        config |-> [defined |-> TRUE, fields |-> {"containerName", "connectionString"}]],
       [key |-> <<"l", "o", "c", "a", "l">>,
        config |-> [defined |-> TRUE, fields |-> {"basePath"}]] >>

\* config.validateProvider(providerName): the message it throws, <<>> when
\* it returns true
validateProvider(providerName) ==
    LET own == {n \in DOMAIN ConfigFile : ConfigFile[n].key = providerName}
        provider == ConfigFile[CHOOSE n \in own : TRUE].config
        has(field) == field \in provider.fields
        isValid ==
            CASE providerName = <<"a", "w", "s">>
                   -> has("region") /\ has("bucket")
                        /\ has("accessKeyId") /\ has("secretAccessKey")
              [] providerName = <<"g", "c", "p">>
                   -> has("projectId") /\ has("bucket")
                        /\ (has("keyFilename") \/ has("credentials"))
              [] providerName = <<"a", "z", "u", "r", "e">>
                   -> has("accountName") /\ has("containerName")
                        /\ (has("accountKey") \/ has("connectionString"))
              [] providerName = <<"m", "i", "n", "i", "o">>
                   -> has("endPoint") /\ has("accessKey") /\ has("secretKey")
                        /\ has("bucket")
    IN  IF own = {}
        THEN <<"Provider '">> \o providerName \o <<"' not found in configuration">>
        ELSE IF providerName \notin {<<"a", "w", "s">>, <<"g", "c", "p">>,
                                     <<"a", "z", "u", "r", "e">>,
                                     <<"m", "i", "n", "i", "o">>}
        THEN <<"No validator found for provider '">> \o providerName \o <<"'">>
        ELSE IF ~isValid
        THEN <<"Invalid configuration for provider '">> \o providerName \o <<"'">>
        ELSE <<>>

\* the tests of runBasicTests, runPerformanceTests and runSecurityTests
suite(testType) ==
    CASE testType = "performance"
           -> <<"Upload Speed", "Download Speed", "Concurrent Uploads",
                "Large File Handling">>
      [] testType = "security"
           -> <<"Signed URL Generation", "Access Control", "Metadata Security">>
      [] OTHER
           -> <<"Health Check", "Upload File", "Download File", "List Objects",
                "Get Metadata", "Object Exists", "Delete Object">>

\* a call of the log; key is the key it was given, if it takes one
Call(call, provider, test, threw) ==
    [call |-> call, provider |-> provider, test |-> test, threw |-> threw,
     key |-> RunnerIdle.testKey]

\* a record whose overall status and pass rate count every test as passed
testResultCountingAll(providerName, tests) ==
    LET digits == <<"0", "1", "2", "3", "4", "5", "6", "7", "8", "9">>
    IN  [provider |-> providerName, tests |-> tests, overall |-> "passed",
         passRate |-> <<digits[Len(tests) + 1], "/", digits[Len(tests) + 1]>>,
         error |-> <<>>]

\* runner.js:36-40, 56-62: the record of a provider whose suite has run
testResult(providerName, tests) ==
    LET digits == <<"0", "1", "2", "3", "4", "5", "6", "7", "8", "9">>
        passed == Cardinality({n \in DOMAIN tests : tests[n].status = "passed"})
        total == Len(tests)
    IN  [provider |-> providerName, tests |-> tests,
         overall |-> IF passed = total THEN "passed" ELSE "failed",
         passRate |-> <<digits[passed + 1], "/", digits[total + 1]>>,
         error |-> <<>>]

\* a catch that records the provider as failed
errorResultAsFailed(providerName, message) ==
    [provider |-> providerName, tests |-> <<>>, overall |-> "failed",
     passRate |-> <<>>, error |-> message]

\* runner.js:72-77: the record the catch of testProvider pushes
errorResult(providerName, message) ==
    [provider |-> providerName, tests |-> <<>>, overall |-> "error",
     passRate |-> <<>>, error |-> message]

\* run({provider, type}), up to its loop
run(provider, testType) ==
    /\ runner.pc = "idle"
    /\ runner' = [runner EXCEPT
                    !.pc = "loop",
                    !.type = testType,
                    !.providersToTest =
                        IF provider = <<"a", "l", "l">>
                        THEN [n \in DOMAIN ConfigFile |-> ConfigFile[n].key]
                        ELSE <<provider>>]
    /\ UNCHANGED <<storeVars, pager, cloud, fac>>

\* testProvider, from its call to the first test of the suite, or through
\* its catch: config.getProvider, then createAndInitialize
testProvider ==
    /\ runner.pc = "loop"
    /\ runner.i < Len(runner.providersToTest)
    /\ LET providerName == runner.providersToTest[runner.i + 1]
           own == {n \in DOMAIN ConfigFile : ConfigFile[n].key = providerName}
           \* a name every object inherits finds something that is no
           \* configuration
           inherited == providerName \in
               {<<"c", "o", "n", "s", "t", "r", "u", "c", "t", "o", "r">>,
                <<"_", "_", "p", "r", "o", "t", "o", "_", "_">>}
           notFound == <<"Provider '">> \o providerName
                           \o <<"' not found in configuration">>
           providerConfig == IF own # {} THEN ConfigFile[CHOOSE n \in own : TRUE].config
                             ELSE [defined |-> TRUE, fields |-> {}]
           Caught(calls, message) ==
               [runner EXCEPT !.i = @ + 1,
                              !.log = @ \o calls,
                              !.results = Append(@, errorResult(providerName, message))]
       IN  IF own = {} /\ ~inherited
           THEN runner' = Caught(<<Call("getProvider", providerName, "", notFound)>>,
                                 notFound)
           ELSE \E made \in createAndInitialize(providerName, providerConfig) :
                   LET calls == <<Call("getProvider", providerName, "", <<>>)>>
                                \o [n \in DOMAIN made.calls |->
                                      Call(made.calls[n], providerName, "",
                                           IF n = Len(made.calls)
                                           THEN made.err.message ELSE <<>>)]
                   IN  IF ~made.ok
                       THEN runner' = Caught(calls, made.err.message)
                       ELSE runner' = [runner EXCEPT !.pc = "tests",
                                                     !.i = @ + 1,
                                                     !.log = @ \o calls,
                                                     !.todo = suite(runner.type),
                                                     !.tests = <<>>]
    /\ UNCHANGED <<storeVars, pager, cloud, fac>>

\* a loop over the suite's tests that a throwing test ends
runTestStopping ==
    /\ runner.pc = "tests"
    /\ runner.todo # <<>>
    /\ \E threw \in {<<>>, <<"expected">>} :
          LET test == Head(runner.todo)
              entry == [name |-> test,
                        status |-> IF threw = <<>> THEN "passed" ELSE "failed",
                        error |-> threw]
          IN  runner' = [runner EXCEPT
                  !.todo = IF threw = <<>> THEN Tail(@) ELSE <<>>,
                  !.tests = Append(@, entry),
                  !.log = Append(@, Call("test", runner.providersToTest[runner.i],
                                         test, threw))]
    /\ UNCHANGED <<storeVars, pager, cloud, fac>>

\* one turn of the loop over the suite's tests: the test returns or throws
runTest ==
    /\ runner.pc = "tests"
    /\ runner.todo # <<>>
    /\ \E threw \in {<<>>, <<"expected">>} :
          LET test == Head(runner.todo)
              entry == [name |-> test,
                        status |-> IF threw = <<>> THEN "passed" ELSE "failed",
                        error |-> threw]
              had == {n \in DOMAIN runner.tests : runner.tests[n].name = test}
          IN  runner' = [runner EXCEPT
                  !.todo = Tail(@),
                  !.tests = IF had = {} THEN Append(@, entry)
                            ELSE [n \in DOMAIN @ |-> IF n \in had THEN entry ELSE @[n]],
                  !.log = Append(@, Call("test", runner.providersToTest[runner.i],
                                         test, threw))]
    /\ UNCHANGED <<storeVars, pager, cloud, fac>>

\* a testProvider whose cleanup() throws after the result was pushed, so
\* that the catch pushes a second record
finishProviderCleanupThrows ==
    /\ runner.pc = "tests"
    /\ runner.todo = <<>>
    /\ LET providerName == runner.providersToTest[runner.i]
       IN  runner' = [runner EXCEPT
               !.pc = "loop",
               !.results = @ \o <<testResult(providerName, runner.tests),
                                  errorResult(providerName, <<"cleanup">>)>>,
               !.log = Append(@, Call("cleanup", providerName, "", <<"cleanup">>))]
    /\ UNCHANGED <<storeVars, pager, cloud, fac>>

\* testProvider after the suite: the result is pushed, then cleanup() of
\* the provider, which does nothing (base.js:120-123)
finishProvider ==
    /\ runner.pc = "tests"
    /\ runner.todo = <<>>
    /\ LET providerName == runner.providersToTest[runner.i]
       IN  runner' = [runner EXCEPT
               !.pc = "loop",
               !.results = Append(@, testResult(providerName, runner.tests)),
               !.log = Append(@, Call("cleanup", providerName, "", <<>>))]
    /\ UNCHANGED <<storeVars, pager, cloud, fac>>

\* run past its loop: it returns the report
generateReport ==
    /\ runner.pc = "loop"
    /\ runner.i = Len(runner.providersToTest)
    /\ runner' = [runner EXCEPT !.pc = "returned"]
    /\ UNCHANGED <<storeVars, pager, cloud, fac>>

NextRunner ==
    \/ \E provider \in {<<"a", "l", "l">>, <<"a", "w", "s">>,
                         <<"a", "z", "u", "r", "e">>, <<"A", "z", "u", "r", "e">>,
                         <<"l", "o", "c", "a", "l">>, <<"m", "i", "n", "i", "o">>,
                         <<"c", "o", "n", "s", "t", "r", "u", "c", "t", "o", "r">>},
          testType \in {"basic", "performance", "security", "all"} :
           run(provider, testType)
    \/ testProvider
    \/ runTest
    \/ finishProvider
    \/ generateReport

SpecRunner == Init /\ [][NextRunner]_vars

-----------------------------------------------------------------------------
(* The tests of the basic and the performance suite by their bodies         *)
(* (runner.js:163-340).  A test is called with the runner's state r and the *)
(* number of the suite run; its outcomes are records: threw is the message  *)
(* of what it threw (<<>> when it returned), val what it returned, calls    *)
(* the provider calls it made, and testKey, drawn and stored the runner's   *)
(* fields after it.  A provider call returns its success result or throws,  *)
(* as every adapter of the repository does.  A key is its prefix and what   *)
(* makes it unique against the other keys drawn: generateTestKey appends    *)
(* Date.now() and a random string (base.js:171-175), the model a serial     *)
(* number; run is not of the key: the suite run that drew it.  An upload    *)
(* that returns stores the object, one that throws stores nothing; a delete *)
(* that returns removes the object if this provider holds it.               *)

\* const concurrency = 5
concurrency == 5

\* what a performance test returns: the names of its fields, and the value
\* of successful if it has that field
metrics(fields, successful) == [fields |-> fields, successful |-> successful]

\* testUpload: this.testKey is assigned after an upload that succeeded
testUpload(r, i) ==
    LET testKey == [prefix |-> "upload-test", serial |-> r.drawn + 1, run |-> i]
        Outcome(threw) ==
            [threw |-> threw, val |-> metrics({}, <<>>),
             calls |-> <<[call |-> "upload", key |-> testKey, threw |-> threw]>>,
             testKey |-> IF threw = <<>> THEN testKey ELSE r.testKey,
             drawn |-> r.drawn + 1,
             stored |-> IF threw = <<>> THEN r.stored \cup {testKey} ELSE r.stored]
    IN  {Outcome(<<>>), Outcome(<<"upload failed">>)}

\* testDownload, testMetadata and testExists: the guard on this.testKey, then
\* one call of the provider with it (download, getMetadata, exists)
testRead(r, call) ==
    LET Outcome(threw, calls) ==
            [threw |-> threw, val |-> metrics({}, <<>>), calls |-> calls,
             testKey |-> r.testKey, drawn |-> r.drawn, stored |-> r.stored]
        Made(threw) == <<[call |-> call, key |-> r.testKey, threw |-> threw]>>
    IN  IF r.testKey = RunnerIdle.testKey
        THEN {Outcome(IF call = "download"
                      THEN <<"No test key available from upload test">>
                      ELSE <<"No test key available">>, <<>>)}
        ELSE {Outcome(<<>>, Made(<<>>)),
              Outcome(<<call, " failed">>, Made(<<call, " failed">>))}
              \cup IF call = "exists"
                   THEN {Outcome(<<"Object should exist">>, Made(<<>>))}
                   ELSE {}

\* testDelete: the guard, delete(this.testKey), then exists(this.testKey);
\* this.testKey keeps its value
testDelete(r, i) ==
    LET Outcome(threw, calls, stored) ==
            [threw |-> threw, val |-> metrics({}, <<>>), calls |-> calls,
             testKey |-> r.testKey, drawn |-> r.drawn, stored |-> stored]
        Made(call, threw) == [call |-> call, key |-> r.testKey, threw |-> threw]
        left == {k \in r.stored : k # r.testKey \/ k.run # i}
    IN  IF r.testKey = RunnerIdle.testKey
        THEN {Outcome(<<"No test key available">>, <<>>, r.stored)}
        ELSE {Outcome(<<>>, <<Made("delete", <<>>), Made("exists", <<>>)>>, left),
              Outcome(<<"delete failed">>, <<Made("delete", <<"delete failed">>)>>,
                      r.stored)}

\* testUploadSpeed (what is 'speed-test') and testLargeFile ('large-file-test'):
\* upload, delete, and the metrics
testUploadSpeed(r, i, what) ==
    LET testKey == [prefix |-> what, serial |-> r.drawn + 1, run |-> i]
        Outcome(threw, val, calls, stored) ==
            [threw |-> threw, val |-> val, calls |-> calls,
             testKey |-> r.testKey, drawn |-> r.drawn + 1, stored |-> stored]
        Made(call, threw) == [call |-> call, key |-> testKey, threw |-> threw]
    IN  {Outcome(<<"upload failed">>, metrics({}, <<>>), <<Made("upload", <<"upload failed">>)>>,
                 r.stored),
         Outcome(<<"delete failed">>, metrics({}, <<>>),
                 <<Made("upload", <<>>), Made("delete", <<"delete failed">>)>>,
                 r.stored \cup {testKey}),
         Outcome(<<>>, IF what = "speed-test" THEN metrics({"speed", "time"}, <<>>)
                       ELSE metrics({"size", "time"}, <<>>),
                 <<Made("upload", <<>>), Made("delete", <<>>)>>,
                 r.stored)}

\* testDownloadSpeed: upload, download, delete, and the metrics
testDownloadSpeed(r, i) ==
    LET testKey == [prefix |-> "download-speed-test", serial |-> r.drawn + 1, run |-> i]
        Outcome(threw, val, calls, stored) ==
            [threw |-> threw, val |-> val, calls |-> calls,
             testKey |-> r.testKey, drawn |-> r.drawn + 1, stored |-> stored]
        Made(call, threw) == [call |-> call, key |-> testKey, threw |-> threw]
    IN  {Outcome(<<"upload failed">>, metrics({}, <<>>), <<Made("upload", <<"upload failed">>)>>,
                 r.stored),
         Outcome(<<"download failed">>, metrics({}, <<>>),
                 <<Made("upload", <<>>), Made("download", <<"download failed">>)>>,
                 r.stored \cup {testKey}),
         Outcome(<<"delete failed">>, metrics({}, <<>>),
                 <<Made("upload", <<>>), Made("download", <<>>),
                   Made("delete", <<"delete failed">>)>>,
                 r.stored \cup {testKey}),
         Outcome(<<>>, metrics({"speed", "time"}, <<>>),
                 <<Made("upload", <<>>), Made("download", <<>>), Made("delete", <<>>)>>,
                 r.stored)}

\* testConcurrentUploads: the uploads are all called before Promise.all is
\* awaited, which throws what the first upload to fail threw; the cleanup
\* draws a new key for every delete and ignores what the delete throws
testConcurrentUploads(r, i) ==
    LET digits == <<"0", "1", "2", "3", "4", "5", "6", "7", "8", "9">>
        prefix == <<"concurrent-0", "concurrent-1", "concurrent-2", "concurrent-3",
                    "concurrent-4">>
        testKey(n) == [prefix |-> prefix[n], serial |-> r.drawn + n, run |-> i]
        cleanupKey(n) == [prefix |-> prefix[n], serial |-> r.drawn + concurrency + n,
                          run |-> i]
        uploads(failing) ==
            [n \in 1..concurrency |->
                [call |-> "upload", key |-> testKey(n),
                 threw |-> IF n \in failing THEN <<"upload failed">> ELSE <<>>]]
        deletes(failing) ==
            [n \in 1..concurrency |->
                [call |-> "delete", key |-> cleanupKey(n),
                 threw |-> IF n \in failing THEN <<"delete failed">> ELSE <<>>]]
        results(failing) == {n \in 1..concurrency : n \notin failing}
        stored(failing) == r.stored \cup {testKey(n) : n \in results(failing)}
    IN  {[threw |-> <<"upload failed">>, val |-> metrics({}, <<>>), calls |-> uploads(failing),
          testKey |-> r.testKey, drawn |-> r.drawn + concurrency,
          stored |-> stored(failing)]
         : failing \in SUBSET (1..concurrency) \ {{}}}
        \cup
        {[threw |-> <<>>,
          val |-> metrics({"successful", "time"},
                          <<digits[Cardinality(results({})) + 1], "/",
                            digits[concurrency + 1]>>),
          calls |-> uploads({}) \o deletes(failing),
          testKey |-> r.testKey, drawn |-> r.drawn + 2 * concurrency,
          stored |-> {k \in stored({}) :
                         \A n \in 1..concurrency : n \in failing \/ k # cleanupKey(n)}]
         : failing \in {{}, {2}, 1..concurrency}}

\* a test whose body makes no call with a key (testHealth, testList): it
\* returns or throws
testOther(r) ==
    {[threw |-> threw, val |-> metrics({}, <<>>), calls |-> <<>>,
      testKey |-> r.testKey, drawn |-> r.drawn, stored |-> r.stored]
     : threw \in {<<>>, <<"expected">>}}

\* test.fn() for the test of that name
testFn(name, r, i) ==
    CASE name = "Upload File" -> testUpload(r, i)
      [] name = "Download File" -> testRead(r, "download")
      [] name = "Get Metadata" -> testRead(r, "getMetadata")
      [] name = "Object Exists" -> testRead(r, "exists")
      [] name = "Delete Object" -> testDelete(r, i)
      [] name = "Upload Speed" -> testUploadSpeed(r, i, "speed-test")
      [] name = "Download Speed" -> testDownloadSpeed(r, i)
      [] name = "Concurrent Uploads" -> testConcurrentUploads(r, i)
      [] name = "Large File Handling" -> testUploadSpeed(r, i, "large-file-test")
      [] OTHER -> testOther(r)

\* one turn of the loop of runBasicTests or runPerformanceTests: the test
\* runs, and its entry is 'passed' (with what it returned as metrics in the
\* performance suite) or 'failed' with the message
runSuiteTest ==
    /\ runner.pc = "tests"
    /\ runner.todo # <<>>
    /\ \E o \in testFn(Head(runner.todo), runner, runner.i) :
          LET test == Head(runner.todo)
              providerName == runner.providersToTest[runner.i]
              entry == [name |-> test,
                        status |-> IF o.threw = <<>> THEN "passed" ELSE "failed",
                        error |-> o.threw,
                        metrics |-> IF runner.type = "performance" THEN o.val
                                    ELSE metrics({}, <<>>)]
              calls == [n \in DOMAIN o.calls |->
                          [Call(o.calls[n].call, providerName, test, o.calls[n].threw)
                              EXCEPT !.key = o.calls[n].key]]
          IN  runner' = [runner EXCEPT
                  !.todo = Tail(@),
                  !.tests = Append(@, entry),
                  !.log = @ \o calls \o <<Call("test", providerName, test, o.threw)>>,
                  !.testKey = o.testKey,
                  !.drawn = o.drawn,
                  !.stored = o.stored]
    /\ UNCHANGED <<storeVars, pager, cloud, fac>>

\* the basic suite over every configured provider, the performance suite
\* over one
NextSuites ==
    \/ run(<<"a", "l", "l">>, "basic")
    \/ run(<<"l", "o", "c", "a", "l">>, "performance")
    \/ testProvider
    \/ runSuiteTest
    \/ finishProvider
    \/ generateReport

SpecSuites == Init /\ [][NextSuites]_vars

-----------------------------------------------------------------------------
(* The properties.  "The object of key k" below is what lastUp[k] holds: the *)
(* last successful upload of k, for as long as no later call changed k's     *)
(* content file or sidecar.                                                  *)

\* the bytes a caller hands over, read as the specification reads them: a
\* buffer's bytes, a string's UTF-8 encoding
BytesGiven(d) == IF d.type = "buffer" THEN d.val ELSE BufferFrom(d.val)

\* the bytes the provider takes data to stand for: those of the local file a
\* string names, when it names one
BytesMeant(d) ==
    IF d.type = "string" /\ d.val \in DOMAIN localFiles
    THEN localFiles[d.val].bytes
    ELSE BytesGiven(d)

Uploaded(k) == Get(lastUp[k])

\* initialize() has prepared the store: the root and the sidecar tree exist
Initialized(f) == IsDir(f, basePath) /\ IsDir(f, metadataPath)

C3_EtagIsHashOfStored ==
    \A k \in Keys :
        lastUp[k] # {} =>
            /\ IsFile(fs, _getFilePath(k))
            /\ Uploaded(k).etag = <<"md5", fs[_getFilePath(k)].data>>
            /\ (ret.op = "getMetadata" /\ ret.key = k)
                   => (ret.ok /\ ret.val.etag = Uploaded(k).etag)

C3_Witness ==
    /\ ret.op = "getMetadata"
    /\ ret.ok
    /\ lastUp[ret.key] # {}
    /\ Uploaded(ret.key).over # {}
    /\ ret.val.etag = <<"md5", Raw(<<"01", "02">>)>>

\* C4 as the specification words it, on a store that initialize() prepared:
\* delete(k) returns success for every key, stored or not, exists(k) is false
\* after it, and a second delete(k) returns success too and leaves the same
\* state.
C4_DeleteIdempotent ==
    (Initialized(fs) /\ ret.op = "delete")
        => /\ ret.ok
           /\ ~existsRun(fs, ret.key).val.exists
           /\ deleteRun(fs, ret.key).ret.ok
           /\ deleteRun(fs, ret.key).fs = fs

SidecarPresent(f, k) == pathExists(f, _getMetadataPath(k))

\* the keys whose content file lies outside the sidecar tree
PlainKeys == {k \in Keys : ~IsPrefixOf(metadataPath, _getFilePath(k))}

\* C5 as the specification words it, on a store that initialize() prepared
\* and for the keys outside the sidecar tree: every read decides from the sidecar alone whether the object is there.
\* exists reports the sidecar's presence, and getMetadata, download,
\* getSignedUrl and copy fail with not-found for a key that has no sidecar.
C5_PresenceBySidecar ==
    [][ Initialized(fs) =>
        /\ (ret'.op = "exists" /\ ret'.key \in PlainKeys)
               => ret'.val.exists = SidecarPresent(fs, ret'.key)
        /\ (ret'.op \in {"getMetadata", "download", "getSignedUrl"}
                /\ ret'.key \in PlainKeys /\ ~SidecarPresent(fs, ret'.key))
               => (~ret'.ok /\ ret'.err.code = "not found")
        /\ (nops' # nops /\ ret'.op = "copy"
                /\ ret'.key \in PlainKeys /\ ~SidecarPresent(fs, ret'.key))
               => (~ret'.ok /\ ret'.err.code = "not found") ]_vars

\* C6 as the specification words it, on a store that initialize() prepared:
\* after any sequence of completed calls that do not overlap, every key has
\* outside the sidecar tree has a content file exactly when it has a sidecar,
\* keys one of which extends the other by a path segment ('a' and 'a/b')
\* included.
C6_ContentIffSidecar ==
    Initialized(fs)
        => \A k \in PlainKeys :
               IsFile(fs, _getFilePath(k)) <=> IsFile(fs, _getMetadataPath(k))

\* the content type the provider records for data d uploaded with options o
ContentTypeMeant(d, o) ==
    IF o.contentType # None THEN Get(o.contentType)
    ELSE IF d.type = "string" /\ d.val \in DOMAIN localFiles /\ mimeLookup(d.val) # ""
    THEN mimeLookup(d.val)
    ELSE "application/octet-stream"

Overwrote(k) == lastUp[k] # {} /\ Uploaded(k).over # {}

\* what the reads of a key show when its last upload replaced an earlier one;
\* Bytes(d): the bytes that data d is taken to stand for
SecondOnly(Bytes(_)) ==
    /\ (ret.op = "download" /\ Overwrote(ret.key))
           => /\ ret.ok
              /\ ret.dest = FileNode(Raw(Bytes(Uploaded(ret.key).data)))
    /\ (ret.op = "getMetadata" /\ Overwrote(ret.key))
           => /\ ret.ok
              /\ ret.val.size = Len(Bytes(Uploaded(ret.key).data))
              /\ ret.val.etag = <<"md5", Raw(Bytes(Uploaded(ret.key).data))>>
              /\ ret.val.contentType =
                     ContentTypeMeant(Uploaded(ret.key).data, Uploaded(ret.key).options)
              /\ ret.val.metadata = OrElse(Uploaded(ret.key).options.metadata, NoMeta)

SecondOnlyGiven == SecondOnly(BytesGiven)
SecondOnlyMeant == SecondOnly(BytesMeant)

\* an upload to a key that holds an object returns success
OverwriteSucceeds ==
    (nops' # nops /\ ret'.op = "upload" /\ lastUp[ret'.key] # {}) => ret'.ok

\* C8 as the specification words it: an upload to a key that holds an object
\* succeeds, and afterwards download yields exactly the second data and
\* getMetadata the size, etag, content type and metadata of the second upload.
C8_SecondDataOnly == [][OverwriteSucceeds /\ SecondOnlyGiven']_vars

\* C8, amended: an upload to a key that holds an object succeeds without a
\* conflict check; afterwards download yields exactly the bytes of the second
\* upload (those of d2, or of the local file d2 names when it is a string
\* that names one), getMetadata reports the size, etag, content type and
\* metadata of the second upload, and nothing of the first survives.
C8_Overwrite == [][OverwriteSucceeds /\ SecondOnlyMeant']_vars

C8_Witness ==
    /\ ret.op = "getMetadata"
    /\ ret.ok
    /\ Overwrote(ret.key)
    /\ Uploaded(ret.key).over = {[data |-> BufData, options |-> FullOptions]}
    /\ Uploaded(ret.key).data = StrData
    /\ Uploaded(ret.key).options = NoOptions
    /\ ret.val.size = 3
    /\ ret.val.contentType = "application/octet-stream"
    /\ ret.val.metadata = NoMeta

NotFound(r) == ~r.ok /\ r.err.code = "not found" /\ r.err.key = r.key

\* C9 as the specification words it, on a store that initialize() prepared:
\* for a key that was never uploaded, or that was deleted, getMetadata,
\* download and copy from it fail with a not-found error that names the key,
\* change nothing in the content tree or the sidecar tree, and create nothing
\* at the download's or the copy's destination.
C9_AbsentKeyNotFound ==
    [][ Initialized(fs) =>
        /\ (ret'.op \in {"getMetadata", "download"} /\ ret'.key \notin written)
               => (NotFound(ret') /\ ret'.dest = NoNode /\ fs' = fs)
        /\ (nops' # nops /\ ret'.op = "copy" /\ ret'.key \notin written)
               => (NotFound(ret') /\ fs' = fs) ]_vars

\* upload i was cut short after its first file step, and every other upload
\* had ended before it began
Interrupted(i) ==
    /\ tasks[i] # Idle
    /\ tasks[i].pc = "aborted"
    /\ \A j \in DOMAIN tasks : j # i => (tasks[j] = Idle \/ j \in tasks[i].before)

\* C7 as the specification words it, on a store that initialize() prepared:
\* an upload to a fresh or existing key that crashes or fails between its
\* file steps never leaves a sidecar without content; a key it leaves with
\* content and no sidecar is missing for every read; and no read reports a
\* size or an etag that disagrees with the content stored.
C7_InterruptedUploadIsMissing ==
    \A i \in DOMAIN tasks :
        (Initialized(fs) /\ Interrupted(i)) =>
            LET k == tasks[i].key
                content == _getFilePath(k)
                sidecar == _getMetadataPath(k)
            IN  /\ IsFile(fs, sidecar) => IsFile(fs, content)
                /\ (IsFile(fs, content) /\ ~IsFile(fs, sidecar) /\ ret.key = k)
                       => /\ ret.op = "exists" => ~ret.val.exists
                          /\ ret.op \in {"getMetadata", "download", "getSignedUrl"}
                                 => ~ret.ok
                /\ (ret.op = "getMetadata" /\ ret.key = k /\ ret.ok)
                       => /\ IsFile(fs, content)
                          /\ ret.val.size = Len(fs[content].data.bytes)
                          /\ ret.val.etag = <<"md5", fs[content].data>>

AllReturned == \A i \in DOMAIN tasks : tasks[i] # Idle /\ tasks[i].pc = "returned"

TaskKeys == {tasks[i].key : i \in {j \in DOMAIN tasks : tasks[j] # Idle}}

ListedKeys == [n \in DOMAIN ret.val.objects |-> ret.val.objects[n].key]

\* list({prefix}) returned exactly the uploaded keys that start with the
\* prefix, none of them twice
ListedExactly ==
    /\ ret.ok
    /\ {ListedKeys[n] : n \in DOMAIN ListedKeys} = {k \in TaskKeys : IsPrefixOf(ret.key, k)}
    /\ \A m, n \in DOMAIN ListedKeys : m # n => ListedKeys[m] # ListedKeys[n]

\* a list call with a limit above the number of objects followed the
\* completion of MaxTasks uploads of distinct keys
ListedAfterUploads ==
    /\ AllReturned
    /\ Cardinality(TaskKeys) = MaxTasks
    /\ ret.op = "list"
    /\ ret.ok => ret.val.limit > MaxTasks

\* C10 as the specification words it: after N overlapping uploads of N
\* distinct keys have all completed, in any completion order, list({prefix})
\* with a limit above the number of objects returns exactly the stored keys
\* that start with the prefix: every one of the N keys under it, no key
\* without it, no key twice.
C10_ListAfterOverlappingUploads == ListedAfterUploads => ListedExactly

\* C10, amended: the same, for N keys no two of which have the same sanitized
\* form.
C10_ListAfterUploadsOfDistinctFiles ==
    (ListedAfterUploads /\ Cardinality({sanitize(k) : k \in TaskKeys}) = MaxTasks)
        => ListedExactly

C10_Witness ==
    /\ ListedAfterUploads
    /\ ret.ok
    /\ ret.key = <<"a">>
    /\ ListedKeys = <<KeyA, KeySp>>

\* the keys that list can report for a prefix: those a sidecar names whose
\* content file exists
Matching(prefix) ==
    {k \in Keys : /\ IsFile(fs, _getMetadataPath(k))
                  /\ fs[_getMetadataPath(k)].data.kind = "json"
                  /\ fs[_getMetadataPath(k)].data.rec.key = k
                  /\ IsFile(fs, _getFilePath(k))
                  /\ IsPrefixOf(prefix, k)}

\* C11 as the specification words it: no page holds more than limit objects,
\* and a caller that keeps calling list with the token of the page before
\* until a page has isTruncated = false comes to an end, and has then
\* received every matching key exactly once.
C11_PagingEnds ==
    /\ [](~pager.over)
    /\ [](~pager.twice)
    /\ [](pager.pc = "done" => pager.received = Matching(pager.prefix))
    /\ (pager.pc = "calling") ~> (pager.pc \in {"done", "threw"})

\* C12 as the specification words it: on the AWS, GCP and Azure adapters
\* delete(k) of a key the bucket does not hold returns a success result and
\* does not throw, whatever the SDK call reports.
C12_CloudDeleteOfAbsentKey ==
    (cloud.ret.provider \in Backends /\ cloud.ret.absent) => cloud.ret.ok

\* C13 as the specification words it: on the local adapter, for a present
\* source s and any destination t, copy(s, t) succeeds; after it download(t)
\* yields the bytes download(s) yielded before, the sidecar of t equals the
\* sidecar s had except for key and uploadTime, and s's content and sidecar
\* are unchanged.
C13_CopyThenDownload ==
    [][\A s, t \in Keys :
        (Initialized(fs) /\ lastUp[s] # {} /\ copy(s, t)) =>
            LET before == NodeAt(fs, _getMetadataPath(s)).data
                after == NodeAt(fs', _getMetadataPath(t)).data
            IN  /\ ret'.ok
                /\ downloadRun(fs', t).ok
                /\ downloadRun(fs', t).dest = downloadRun(fs, s).dest
                /\ after.kind = "json"
                /\ [after.rec EXCEPT !.key = s, !.uploadTime = 0]
                     = [before.rec EXCEPT !.key = s, !.uploadTime = 0]
                /\ after.rec.key = t
                /\ NodeAt(fs', _getFilePath(s)) = NodeAt(fs, _getFilePath(s))
                /\ NodeAt(fs', _getMetadataPath(s)) = NodeAt(fs, _getMetadataPath(s))
      ]_vars

\* sub occurs in the message text
Contains(text, sub) ==
    \E i \in 0..(Len(text) - Len(sub)) : SubSeq(text, i + 1, i + Len(sub)) = sub

KnownNames == {providers[i].key : i \in DOMAIN providers}

\* C14 as the specification words it: create(name, config) with a name whose
\* lower-cased form is none of aws, gcp, azure, minio, local throws an error
\* whose message contains the name and all five identifiers, and constructs
\* nothing; with one of the five names in any letter case it returns an
\* instance of the matching class.
C14_Create ==
    fac.op = "create" =>
        IF toLowerCase(fac.providerName) \in KnownNames
        THEN /\ fac.ok
             /\ \E i \in DOMAIN providers :
                    /\ providers[i].key = toLowerCase(fac.providerName)
                    /\ fac.val.class = providers[i].class
        ELSE /\ ~fac.ok
             /\ fac.val = FacIdle.val
             /\ Contains(fac.err.message, fac.providerName)
             /\ \A known \in KnownNames : Contains(fac.err.message, known)

\* C15: createAndInitialize(name, config) calls initialize() exactly once on
\* the provider that create constructed; when initialize() throws, what it
\* threw reaches the caller unchanged, there is no second call and nothing is
\* returned; a provider is returned only once its initialize() (and with it
\* validateConfig()) has completed without error.
C15_CreateAndInitialize ==
    fac.op = "createAndInitialize" =>
        LET made == {m \in create(fac.providerName, fac.config) : m.err = FacIdle.err}
            thrown == {i.err : i \in UNION {initializeOutcomes(m.val) : m \in made}}
                          \ {FacIdle.err}
        IN  /\ fac.calls \in {<<"create">>, <<"create", "initialize">>}
            /\ fac.calls = <<"create">> => (~fac.ok /\ fac.val = FacIdle.val)
            /\ (fac.calls = <<"create", "initialize">> /\ ~fac.ok)
                   => (fac.err \in thrown /\ fac.val = FacIdle.val)
            /\ fac.ok => /\ fac.calls = <<"create", "initialize">>
                         /\ fac.val.initialized
                         /\ fac.val.config = fac.config
                         /\ fac.err = FacIdle.err
            /\ (made # {} /\ fac.calls = <<"create">>)
                   => \E m \in create(fac.providerName, fac.config) : m.err = fac.err

\* initialize() of a constructed provider threw, and createAndInitialize
\* threw the same
C15_Witness ==
    /\ fac.op = "createAndInitialize"
    /\ fac.calls = <<"create", "initialize">>
    /\ ~fac.ok
    /\ fac.err = [type |-> "Error", message |-> <<"Failed to connect">>]

\* the calls made for the k-th provider that run took up: from its
\* config.getProvider to the call before the next provider's
Lookups == {n \in DOMAIN runner.log : runner.log[n].call = "getProvider"}

SegmentStart(k) ==
    CHOOSE n \in Lookups : Cardinality({m \in Lookups : m <= n}) = k

Segment(k) ==
    SubSeq(runner.log, SegmentStart(k),
           IF k = Cardinality(Lookups) THEN Len(runner.log) ELSE SegmentStart(k + 1) - 1)

IsTest(call) == call.call = "test"

\* C16 as the specification words it: before a provider is constructed,
\* config.getProvider(name) and config.validateProvider(name) have both been
\* called for it and have returned; a provider whose configuration the
\* validator rejects is never constructed or initialized.
C16_ValidatedBeforeConstruction ==
    \A n \in DOMAIN runner.log :
        runner.log[n].call \in {"create", "initialize"} =>
            /\ \E m \in 1..(n - 1) :
                   /\ runner.log[m].call = "getProvider"
                   /\ runner.log[m].provider = runner.log[n].provider
                   /\ runner.log[m].threw = <<>>
            /\ \E m \in 1..(n - 1) :
                   /\ runner.log[m].call = "validateProvider"
                   /\ runner.log[m].provider = runner.log[n].provider
                   /\ runner.log[m].threw = <<>>
            /\ validateProvider(runner.log[n].provider) = <<>>

\* the tests called for the k-th provider, in the order of the calls
Ran(k) == SelectSeq(Segment(k), IsTest)

\* C17: whichever tests throw, every test of the selected suite (7 for basic,
\* 4 for performance, 3 for security) is executed exactly once and in its
\* listed order, and the provider's result holds exactly one entry per test:
\* 'failed' with the error message for a test that threw, 'passed' for one
\* that did not.
C17_EveryTestOnceInOrder ==
    \A k \in DOMAIN runner.results :
        runner.results[k].overall # "error" =>
            LET tests == runner.results[k].tests
                listed == suite(runner.type)
            IN  /\ Len(listed) = (CASE runner.type = "basic" -> 7
                                     [] runner.type = "performance" -> 4
                                     [] runner.type = "security" -> 3
                                     [] OTHER -> Len(listed))
                /\ [n \in DOMAIN Ran(k) |-> Ran(k)[n].test] = listed
                /\ [n \in DOMAIN tests |-> tests[n].name] = listed
                /\ \A n \in DOMAIN tests :
                       /\ tests[n].status
                            = (IF Ran(k)[n].threw = <<>> THEN "passed" ELSE "failed")
                       /\ tests[n].error = Ran(k)[n].threw

\* a suite has run to its end although its second test threw
C17_Witness ==
    /\ runner.pc = "returned"
    /\ runner.type = "basic"
    /\ Len(runner.results) = 1
    /\ runner.results[1].overall = "failed"
    /\ [n \in 1..7 |-> runner.results[1].tests[n].status]
         = <<"passed", "failed", "passed", "passed", "failed", "passed", "passed">>

\* the provider's initialize() was called and returned
InitializationSucceeded(k) ==
    \E n \in DOMAIN Segment(k) :
        Segment(k)[n].call = "initialize" /\ Segment(k)[n].threw = <<>>

\* C18: for a provider whose initialization succeeded, the recorded overall
\* status is 'passed' if and only if every test of the executed suite has
\* status 'passed', and 'failed' otherwise; passRate is
\* '<number passed>/<number of tests in the suite>'.
C18_OverallAndPassRate ==
    \A k \in DOMAIN runner.results :
        InitializationSucceeded(k) =>
            LET result == runner.results[k]
                passed == {n \in DOMAIN result.tests : result.tests[n].status = "passed"}
                decimal == [n \in 0..7 |->
                              <<"0", "1", "2", "3", "4", "5", "6", "7">>[n + 1]]
            IN  /\ result.overall
                     = (IF passed = DOMAIN result.tests THEN "passed" ELSE "failed")
                /\ result.passRate
                     = <<decimal[Cardinality(passed)], "/",
                         decimal[Len(suite(runner.type))]>>

\* a provider's suite ended with two of its four tests failed
C18_Witness ==
    /\ Len(runner.results) = 1
    /\ runner.results[1].overall = "failed"
    /\ runner.results[1].passRate = <<"2", "/", "4">>

\* C19: a provider whose configuration lookup, construction or initialize()
\* throws is recorded with overall status 'error', an empty per-test map and
\* the error message; no test is executed against it, and it is never
\* recorded as 'passed' or 'failed'.
C19_SetupErrorRecorded ==
    \A k \in DOMAIN runner.results :
        LET calls == Segment(k)
            threw == {n \in DOMAIN calls :
                        /\ calls[n].call \in {"getProvider", "create", "initialize"}
                        /\ calls[n].threw # <<>>}
        IN  threw # {} =>
                /\ runner.results[k].overall = "error"
                /\ runner.results[k].tests = <<>>
                /\ \E n \in threw : runner.results[k].error = calls[n].threw
                /\ Ran(k) = <<>>

\* initialize() of the first provider threw in validateConfig, that of the
\* second one at the backend
C19_Witness ==
    /\ Len(runner.results) = 2
    /\ runner.results[1].error = <<"Missing required AWS configuration: ">>
    /\ runner.results[2].error = <<"Failed to connect">>

\* C20: one call of run() over providers P1..Pn never throws because a
\* provider or a test failed, takes the providers one after the other in
\* their order, and appends exactly one result record per provider, whatever
\* the outcome of the providers before it.
C20_OneRecordPerProvider ==
    /\ runner.pc \in {"idle", "loop", "tests", "returned"}
    /\ runner.pc = "returned" \/ ENABLED NextRunner
    /\ Cardinality(Lookups) = runner.i
    /\ Len(runner.results) = (IF runner.pc = "tests" THEN runner.i - 1 ELSE runner.i)
    /\ \A k \in 1..runner.i :
           runner.log[SegmentStart(k)].provider = runner.providersToTest[k]
    /\ \A k \in DOMAIN runner.results :
           runner.results[k].provider = runner.providersToTest[k]
    /\ runner.pc = "returned" => Len(runner.results) = Len(runner.providersToTest)

\* run has returned after a provider in error, a failed one and a passed
\* one
C20_Witness ==
    /\ runner.pc = "returned"
    /\ Len(runner.results) = 3
    /\ [k \in 1..3 |-> runner.results[k].overall] = <<"error", "failed", "passed">>

\* the tests of the basic suite that use the key of Upload File
Dependents == {"Download File", "Get Metadata", "Object Exists", "Delete Object"}

\* Upload File of the k-th provider's suite run threw
UploadFileFailed(k) ==
    \E n \in DOMAIN Ran(k) : Ran(k)[n].test = "Upload File" /\ Ran(k)[n].threw # <<>>

\* C21 as the specification words it: in every provider's suite run, the
\* second and later ones of a run() included, if Upload File failed then
\* Download File, Get Metadata, Object Exists and Delete Object each fail
\* with the precondition error, and none of them calls the provider with a
\* key that was created during another provider's run.
C21_DependentsOfFailedUpload ==
    \A k \in 1..Cardinality(Lookups) :
        UploadFileFailed(k) =>
            \A n \in DOMAIN Segment(k) :
                LET c == Segment(k)[n]
                IN  c.test \in Dependents =>
                        /\ IsTest(c) => c.threw \in
                               {<<"No test key available">>,
                                <<"No test key available from upload test">>}
                        /\ ~IsTest(c) => c.key.run = k

\* the calls that the test of that name made on the provider, in the run of
\* the performance suite
CallsOf(test) ==
    SelectSeq(runner.log, LAMBDA c : c.test = test /\ c.call \in {"upload", "download", "delete"})

\* the entries of the tests that have finished in the suite run under way
\* or, after it, in the one before
Finished ==
    IF runner.pc = "tests" THEN runner.tests
    ELSE IF runner.results # <<>> THEN runner.results[Len(runner.results)].tests
    ELSE <<>>

\* C22 as the specification words it: when a performance test has finished,
\* passed or failed, delete has been called on every key the test uploaded,
\* and no object that the test created remains.
C22_BenchmarkCleanup ==
    runner.type = "performance" =>
        /\ \A n \in DOMAIN runner.log :
               (runner.log[n].call = "upload" /\ runner.log[n].threw = <<>>) =>
                   \E m \in DOMAIN runner.log :
                       /\ m > n
                       /\ runner.log[m].call = "delete"
                       /\ runner.log[m].test = runner.log[n].test
                       /\ runner.log[m].key = runner.log[n].key
        /\ runner.stored = {}

\* C23 as the specification words it: Concurrent Uploads calls all N uploads
\* before it awaits any, and when some fail and others succeed it still
\* completes 'passed' and reports successful = '<number that succeeded>/N'.
C23_ConcurrentFanOut ==
    \A n \in DOMAIN Finished :
        (runner.type = "performance" /\ Finished[n].name = "Concurrent Uploads") =>
            LET calls == CallsOf("Concurrent Uploads")
                succeeded == {m \in 1..concurrency : calls[m].threw = <<>>}
                decimal == [d \in 0..5 |-> <<"0", "1", "2", "3", "4", "5">>[d + 1]]
            IN  /\ Len(calls) >= concurrency
                /\ \A m \in 1..concurrency : calls[m].call = "upload"
                /\ Finished[n].status = "passed"
                /\ Finished[n].metrics.successful
                     = <<decimal[Cardinality(succeeded)], "/", decimal[concurrency]>>

\* C24 as the specification words it: in every performance test, an error
\* that the cleanup delete throws after the measured operation succeeded is
\* swallowed, and the test is 'passed' with its metrics; an error that the
\* upload or the download throws is never swallowed, and the test is
\* 'failed'.
C24_CleanupErrorsSwallowed ==
    \A n \in DOMAIN Finished :
        runner.type = "performance" =>
            LET calls == CallsOf(Finished[n].name)
                Failed(what) == \E m \in DOMAIN calls :
                                   calls[m].call \in what /\ calls[m].threw # <<>>
            IN  /\ Failed({"upload", "download"}) => Finished[n].status = "failed"
                /\ (Failed({"delete"}) /\ ~Failed({"upload", "download"}))
                       => /\ Finished[n].status = "passed"
                          /\ Finished[n].metrics.fields # {}

\* the sidecars that the walk of list finds
Sidecars ==
    {p \in DOMAIN fs : IsPrefixOf(metadataPath, p) /\ IsFile(fs, p) /\ endsWithJson(p)}

\* a sidecar that list cannot use: its text does not parse
Unparsable(p) == ~JSONparse(fs[p].data).ok

\* a sidecar that list cannot use: the content file of its key is missing
ContentMissing(p) ==
    /\ JSONparse(fs[p].data).ok
    /\ stat(fs, _getFilePath(JSONparse(fs[p].data).rec.key)) # ""

\* the sidecars of the stored objects whose key starts with prefix
ValidMatching(prefix) ==
    {p \in Sidecars :
        /\ ~Unparsable(p)
        /\ ~ContentMissing(p)
        /\ prefix = <<>> \/ startsWith(JSONparse(fs[p].data).rec.key, prefix)}

\* no upload or delete is in flight: the files are those the last call to
\* return has seen
Quiet ==
    \A i \in 1..MaxTasks :
        tasks[i] = Idle \/ tasks[i].pc \in {"returned", "threw", "aborted"}

\* C25: list skips a sidecar that does not parse or whose content file is
\* missing: the listing does not fail, the sidecar does not count toward
\* the limit, and the valid matching objects are returned up to the limit:
\* as many as there are, or limit of them, each from a valid sidecar.
C25_BadSidecarsSkipped ==
    (ret.op = "list" /\ Quiet /\ IsDir(fs, metadataPath)) =>
        LET valid == ValidMatching(ret.key)
            objects == ret.val.objects
        IN  /\ ret.ok
            /\ Len(objects) = (IF Cardinality(valid) < ret.val.limit
                               THEN Cardinality(valid) ELSE ret.val.limit)
            /\ \A n \in DOMAIN objects :
                   \E p \in valid : objects[n].key = JSONparse(fs[p].data).rec.key

\* a listing of limit 1 has returned the one object it may, over a sidecar
\* whose content file is missing
C25_Witness ==
    /\ ret.op = "list"
    /\ Quiet
    /\ ret.ok
    /\ ret.val.limit = 1
    /\ Len(ret.val.objects) = 1
    /\ \E p \in Sidecars : ContentMissing(p)

\* task i is a delete of key that has returned; an upload of key likewise
DeleteReturned(i, key) ==
    /\ "call" \in DOMAIN tasks[i]
    /\ tasks[i].key = key
    /\ tasks[i].pc = "returned"

UploadReturned(i, key) ==
    /\ "data" \in DOMAIN tasks[i]
    /\ tasks[i].key = key
    /\ tasks[i].pc = "returned"

\* C28 as the specification words it: once an upload and a delete of one
\* key whose steps interleaved have both returned (and no other call has
\* written the key), the content file and the sidecar of the key either
\* both exist or are both absent.
C28_UploadAndDeleteOverlapping ==
    \A key \in OverlapKeys, i, j \in 1..MaxTasks :
        (UploadReturned(i, key) /\ DeleteReturned(j, key) /\ key \notin written) =>
            (pathExists(fs, _getFilePath(key)) <=> pathExists(fs, _getMetadataPath(key)))

\* C26 as the specification words it: the listing's isTruncated is true if
\* and only if at least one stored object that matches the prefix was left
\* out of the page; it is false when exactly limit objects match and all of
\* them are returned.
C26_TruncatedIffLeftOut ==
    (ret.op = "list" /\ ret.ok /\ Quiet /\ IsDir(fs, metadataPath)) =>
        (ret.val.isTruncated
            <=> Cardinality(ValidMatching(ret.key)) > Len(ret.val.objects))

\* C27 as the specification words it: once two uploads to one key whose
\* file steps interleaved have both returned, the size and the hash of the
\* sidecar describe the content file as it is stored, and the etag and the
\* size that each upload returned belong to one single payload.
C27_OverlappingUploadsOfOneKey ==
    \A i, j \in 1..MaxTasks :
        (i # j /\ UploadReturned(i, tasks[i].key) /\ UploadReturned(j, tasks[i].key)) =>
            LET key == tasks[i].key
                content == fs[_getFilePath(key)].data
                sidecar == JSONparse(fs[_getMetadataPath(key)].data).rec
                payloads == {Raw(BytesMeant(tasks[i].data)), Raw(BytesMeant(tasks[j].data))}
            IN  /\ sidecar.size = byteLength(content)
                /\ sidecar.hash = md5(content)
                /\ \A t \in {tasks[i], tasks[j]} :
                       \E p \in payloads :
                           t.hash = md5(p) /\ t.contentLength = byteLength(p)

\* the entries that a listing of everything holds for key
ListedFor(f, key) ==
    IF ~IsDir(f, metadataPath) THEN {}
    ELSE LET metadataFiles == CHOOSE s \in _findMetadataFiles(f, metadataPath) : TRUE
             objects == listRun(f, metadataFiles, <<>>, 0).val.objects
         IN  {objects[n] : n \in {m \in DOMAIN objects : objects[m].key = key}}

\* what the reads report for key is the same with the files f as with g
SameReports(f, g, key) ==
    /\ existsRun(f, key) = existsRun(g, key)
    /\ getMetadataRun(f, key) = getMetadataRun(g, key)
    /\ downloadRun(f, key) = downloadRun(g, key)
    /\ ListedFor(f, key) = ListedFor(g, key)

\* C29 as the specification words it, on a store that initialize()
\* prepared: for two keys whose sanitized forms differ, an upload to, a copy to or a delete of the one never changes
\* what exists, getMetadata, download and list report for the other; this
\* includes '.metadata/a.json' against 'a', and 'a' against 'a/b'.
C29_KeyIsolation ==
    [][\A one, other \in Keys :
        (/\ Initialized(fs)
         /\ sanitize(one) # sanitize(other)
         /\ \/ \E data \in Datas, options \in Options : upload(one, data, options)
            \/ \E sourceKey \in Keys : copy(sourceKey, one)
            \/ delete(one))
            => SameReports(fs, fs', other)
      ]_vars

\* the paths where the step has created, overwritten or removed something
Changed == {p \in DOMAIN fs \cup DOMAIN fs' : NodeAt(fs, p) # NodeAt(fs', p)}

\* C30 as the specification words it, on a store that initialize()
\* prepared: for every non-empty key, those that contain '.', '..' or a
\* leading '/' included, every file and directory that upload, copy or
\* delete creates, overwrites or removes lies strictly below the base
\* directory, and none of them removes the base directory or '.metadata'
\* itself.
C30_PathContainment ==
    [][(Initialized(fs) /\ nops' # nops) =>
          /\ \A p \in Changed : IsPrefixOf(basePath, p) /\ p # basePath
          /\ IsDir(fs', basePath)
          /\ IsDir(fs', metadataPath)
      ]_vars

====
